---- MODULE Spec2Model ----
(***************************************************************************)
(* Adaptive routing and fallback subsystem of tradingagents.dataflows:     *)
(* SmartDataRouter (smart_data_router.py), DataConfigManager               *)
(* (data_config_manager.py) and UnifiedDataManager.get_data                *)
(* (unified_data_manager.py).                                              *)
(*                                                                         *)
(* Text is modelled as a sequence of tokens.  A token is a word, the       *)
(* newline "\n" or the blank " ".  The Chinese literals of the source are  *)
(* written in pinyin: "cuowu" (error), "shibai" (failure),                 *)
(* "weihuoqudao" (nothing fetched).  "x in data" (substring) is            *)
(* membership of the token in the sequence.                                *)
(*                                                                         *)
(* An optional value (a dict key that may be absent, or None) is a         *)
(* sequence of length 0 or 1.  A Python dict is a function whose DOMAIN    *)
(* is the set of its keys.                                                 *)
(***************************************************************************)
EXTENDS Naturals, Integers, Sequences, FiniteSets, TLC

(***************************************************************************)
(* Bounds of the model                                                     *)
(***************************************************************************)
\* number of route_data_request calls in one behaviour
MaxCalls == 1
\* number of configuration mutations in one behaviour
MaxConfigOps == 1
\* number of route_data_request calls made on a router with a full history
MaxHistoryCalls == 3
\* number of configuration operations made on a configuration store
MaxStoreOps == 3
\* number of threads that call the shared router at the same time
MaxThreads == 2
\* number of tasks of a pipeline, and of platforms of a comparison
MaxTasks == 2

(***************************************************************************)
(* Text helpers                                                            *)
(***************************************************************************)
NL == "\n"
SP == " "

Range(s) == {s[i] : i \in 1..Len(s)}

\* n copies of the text t, concatenated
RECURSIVE Repeat(_, _)
Repeat(t, n) == IF n = 0 THEN <<>> ELSE t \o Repeat(t, n - 1)

\* str.split('\n'): the list of lines of a text ("" gives one empty line)
RECURSIVE SplitLines(_)
SplitLines(data) ==
  IF \A i \in 1..Len(data) : data[i] # NL
  THEN <<data>>
  ELSE LET k == CHOOSE i \in 1..Len(data) :
                  data[i] = NL /\ \A j \in 1..(i - 1) : data[j] # NL
       IN <<SubSeq(data, 1, k - 1)>> \o SplitLines(SubSeq(data, k + 1, Len(data)))

\* str.strip() == "": only whitespace
IsBlank(t) == \A i \in 1..Len(t) : t[i] \in {SP, NL}

\* the number of elements of a sequence satisfying a test
RECURSIVE CountNonBlank(_)
CountNonBlank(lines) ==
  IF lines = <<>> THEN 0
  ELSE (IF IsBlank(Head(lines)) THEN 0 ELSE 1) + CountNonBlank(Tail(lines))

(***************************************************************************)
(* DataConfigManager: the default configuration                            *)
(***************************************************************************)
\* platforms with a settings entry, and one the configuration does not know
Platforms == {"akshare", "tushare", "simfin", "ghost"}
DataTypes == {"stock_data", "financial_data", "macro_data"}

\* an optional value: <<>> is absent (or None), <<v>> is present
Some(v) == <<v>>
Absent == <<>>

DefaultPriority == 999

DefaultPlatformPreferences ==
  [dt \in DataTypes |->
     CASE dt = "stock_data" -> <<"akshare", "tushare">>
       [] dt = "financial_data" -> <<"akshare", "tushare", "simfin">>
       [] dt = "macro_data" -> <<"akshare">>]

DefaultPlatformSettings ==
  [p \in {"akshare", "tushare", "simfin"} |->
     CASE p = "akshare" ->
            [enabled |-> Some(TRUE), priority |-> Some(1),
             default_params |-> Some({"period", "adjust"})]
       [] p = "tushare" ->
            [enabled |-> Some(TRUE), priority |-> Some(2),
             default_params |-> Some({})]
       [] p = "simfin" ->
            [enabled |-> Some(TRUE), priority |-> Some(8),
             default_params |-> Some({"freq"})]]

\* data_quality_rules: only stock_data and financial_data have a rule
DataQualityRules ==
  [dt \in {"stock_data", "financial_data"} |->
     IF dt = "stock_data"
     THEN [min_data_points |-> 10,
           required_fields |-> {"date", "open", "high", "low", "close", "volume"}]
     ELSE [min_data_points |-> 1, required_fields |-> {"period"}]]

\* mutant: the check lets any strategy through
ValidStrategies_Any == {"next_available", "all_platforms", "fail", "bogus"}

ValidStrategies == {"next_available", "all_platforms", "fail"}

(***************************************************************************)
(* Provider adapters: what a provider function can do when it is called    *)
(***************************************************************************)
Header == <<"date", SP, "open", SP, "high", SP, "low", SP, "close", SP, "volume">>
Row == <<NL, "row">>

\* a 15-line report with the stock_data columns
GoodReport == Header \o Repeat(Row, 14)
\* the same columns, 3 lines only
ShortReport == Header \o Repeat(Row, 2)
\* 15 lines without the column names
BareReport == <<"row">> \o Repeat(Row, 14)
\* "weihuoqudao <symbol> ..." : the adapters' own "nothing fetched" message
NotFetchedText == <<"weihuoqudao", SP, "row">>
EmptyText == <<>>
BlankText == <<SP, NL, SP>>

AdapterTexts ==
  {GoodReport, ShortReport, BareReport, NotFetchedText, EmptyText, BlankText}

\* an adapter either raises or returns a text
AdapterOutcomes ==
  {[raises |-> TRUE, text |-> <<>>]} \cup
  {[raises |-> FALSE, text |-> t] : t \in AdapterTexts}

\* measured time of a provider call, in tenths of a second (one
\* representative duration above the 0.1 s floor of platform_score)
Latencies == {3}

(***************************************************************************)
(* UnifiedDataManager                                                      *)
(***************************************************************************)
\* platform_capabilities: the data types each known platform serves
PlatformCapabilities ==
  [p \in {"akshare", "tushare", "simfin"} |->
     CASE p = "akshare" -> {"stock_data", "financial_data", "macro_data"}
       [] p = "tushare" -> {"stock_data", "financial_data"}
       [] p = "simfin" -> {"balance_sheet", "cashflow", "income_statement"}]

\* the three messages get_data builds, each starting with "cuowu"
\* mutant: the message for an unknown platform without the word "cuowu"
UnsupportedPlatformText_NoIndicator == <<"platform", "row">>
UnsupportedPlatformText == <<"cuowu", "platform">>
UnsupportedTypeText == <<"cuowu", "data_type">>
\* mutant: the message of the except branch without the word "cuowu"/"shibai"
CallFailedText_NoIndicator == <<"call", "row">>
CallFailedText == <<"cuowu", "call", "shibai">>

\* the names get_data binds itself; a keyword argument of the same name
\* makes the call raise TypeError before the body runs
GetDataOwnNames == {"self", "platform", "data_type"}

\* get_data(platform, data_type, **kwargs) with the adapter's behaviour `out`:
\* the returned text, or raises when kwargs collide with its own parameters
get_data(platform, data_type, kwargs, out) ==
  IF kwargs \cap GetDataOwnNames # {}
  THEN [raises |-> TRUE, text |-> <<>>]
  ELSE IF platform \notin DOMAIN PlatformCapabilities
  THEN [raises |-> FALSE, text |-> UnsupportedPlatformText]
  ELSE IF data_type \notin PlatformCapabilities[platform]
  THEN [raises |-> FALSE, text |-> UnsupportedTypeText]
  ELSE IF out.raises
  THEN [raises |-> FALSE, text |-> CallFailedText]
  ELSE [raises |-> FALSE, text |-> out.text]

\* does get_data reach the provider function
Dispatches(platform, data_type, kwargs) ==
  /\ kwargs \cap GetDataOwnNames = {}
  /\ platform \in DOMAIN PlatformCapabilities
  /\ data_type \in PlatformCapabilities[platform]

(***************************************************************************)
(* SmartDataRouter: quality gate                                           *)
(***************************************************************************)
error_indicators == {"cuowu", "shibai", "Error", "Failed", "weihuoqudao", "No data"}

\* mutant: the gate without the scan for failure indicators
_validate_data_quality_NoIndicatorScan(data, data_type, rules) ==
  LET type_rules == IF data_type \in DOMAIN rules THEN Some(rules[data_type]) ELSE Absent
      min_data_points == IF type_rules = Absent THEN 1 ELSE type_rules[1].min_data_points
      required_fields == IF type_rules = Absent THEN {} ELSE type_rules[1].required_fields
  IN IF data = <<>> \/ IsBlank(data) THEN FALSE
     ELSE IF CountNonBlank(SplitLines(data)) < min_data_points THEN FALSE
     ELSE IF \E field \in required_fields : field \notin Range(data) THEN FALSE
     ELSE TRUE

_validate_data_quality(data, data_type, rules) ==
  LET type_rules == IF data_type \in DOMAIN rules THEN Some(rules[data_type]) ELSE Absent
      min_data_points == IF type_rules = Absent THEN 1 ELSE type_rules[1].min_data_points
      required_fields == IF type_rules = Absent THEN {} ELSE type_rules[1].required_fields
  IN IF data = <<>> \/ IsBlank(data) THEN FALSE
     ELSE IF \E indicator \in error_indicators : indicator \in Range(data) THEN FALSE
     ELSE IF CountNonBlank(SplitLines(data)) < min_data_points THEN FALSE
     ELSE IF \E field \in required_fields : field \notin Range(data) THEN FALSE
     ELSE TRUE

(***************************************************************************)
(* State                                                                   *)
(***************************************************************************)
VARIABLES
  config,                \* DataConfigManager.config (the in-memory document)
  disk,                  \* the persisted document: <<>> while no file exists
  platform_performance,  \* SmartDataRouter.platform_performance
  request_history,       \* SmartDataRouter.request_history
  pc,                    \* "idle", "trying" (inside _try_platforms), "done", "raised"
  call,                  \* the arguments of the route_data_request in progress
  platforms,             \* _try_platforms: the sorted candidate list
  idx,                   \* _try_platforms: position of the for loop
  platforms_tried,       \* _try_platforms: local list
  errors,                \* _try_platforms: local list
  elapsed,               \* time spent in provider calls since start_time
  result,                \* the dict returned by the last call: <<>> until it returns
  turns,                 \* log of the loop iterations of the call in progress
  hist0,                 \* len(request_history) when the call started
  calls,                 \* route_data_request calls started so far
  configOps,             \* configuration operations so far
  op,                    \* the last configuration operation and its outcome
  budget,                \* the calls and operations one behaviour may hold
  threads,               \* the callers running concurrently on the router
  batch                  \* create_smart_pipeline / get_multi_platform_data in progress

\* no pipeline and no comparison is running
NoBatch ==
  [kind |-> "none", items |-> <<>>, data_type |-> "", params |-> {}, i |-> 1,
   results |-> <<>>, log |-> <<>>, perfs0 |-> <<>>, history0 |-> 0,
   finished |-> FALSE]

cfgVars == <<config, disk>>
routerVars == <<platform_performance, request_history>>
frameVars == <<pc, call, platforms, idx, platforms_tried, errors, elapsed, result,
               turns, hist0, calls, batch>>
vars == <<config, disk, platform_performance, request_history, pc, call,
          platforms, idx, platforms_tried, errors, elapsed, result, turns,
          hist0, calls, configOps, op, budget, threads, batch>>

(***************************************************************************)
(* DataConfigManager                                                       *)
(***************************************************************************)
_get_default_config ==
  [platform_preferences |-> DefaultPlatformPreferences,
   platform_settings |-> DefaultPlatformSettings,
   data_quality_rules |-> DataQualityRules,
   fallback_strategy |-> "next_available"]

\* settings.get(platform, {})
NoSettings == [enabled |-> Absent, priority |-> Absent, default_params |-> Absent]

get_platform_preferences(cfg, data_type) ==
  IF data_type \in DOMAIN cfg.platform_preferences
  THEN cfg.platform_preferences[data_type] ELSE <<>>

get_platform_settings(cfg, platform) ==
  IF platform \in DOMAIN cfg.platform_settings
  THEN cfg.platform_settings[platform] ELSE NoSettings

\* mutant: the enabled flag is ignored
is_platform_enabled_Always(cfg, platform) == TRUE

is_platform_enabled(cfg, platform) ==
  LET settings == get_platform_settings(cfg, platform)
  IN IF Len(settings.enabled) = 0 THEN TRUE ELSE settings.enabled[1]

get_platform_priority(cfg, platform) ==
  LET settings == get_platform_settings(cfg, platform)
  IN IF Len(settings.priority) = 0 THEN DefaultPriority ELSE settings.priority[1]

get_default_params(cfg, platform) ==
  LET settings == get_platform_settings(cfg, platform)
  IN IF Len(settings.default_params) = 0 THEN {} ELSE settings.default_params[1]

RECURSIVE FilterEnabled(_, _)
FilterEnabled(cfg, ps) ==
  IF ps = <<>> THEN <<>>
  ELSE (IF is_platform_enabled(cfg, Head(ps)) THEN <<Head(ps)>> ELSE <<>>)
       \o FilterEnabled(cfg, Tail(ps))

get_enabled_platforms(cfg, data_type) ==
  FilterEnabled(cfg, get_platform_preferences(cfg, data_type))

get_fallback_strategy(cfg) == cfg.fallback_strategy

\* mutant: the entry is replaced by one that holds the field alone
WithSetting_Replaces(cfg, platform, field, value) ==
  [cfg EXCEPT !.platform_settings =
     [q \in DOMAIN cfg.platform_settings \cup {platform} |->
        IF q = platform THEN [NoSettings EXCEPT ![field] = Some(value)]
        ELSE cfg.platform_settings[q]]]

\* the document after platform_settings[platform][field] = value
WithSetting(cfg, platform, field, value) ==
  LET old == get_platform_settings(cfg, platform)
      new == [old EXCEPT ![field] = Some(value)]
  IN [cfg EXCEPT !.platform_settings =
        [q \in DOMAIN cfg.platform_settings \cup {platform} |->
           IF q = platform THEN new ELSE cfg.platform_settings[q]]]

\* json.dump / json.load of one platform's settings: the JSON object holds
\* the keys that are present
DumpSettings(settings) ==
  [k \in {f \in DOMAIN settings : settings[f] # Absent} |-> settings[k][1]]

LoadSettings(object) ==
  [k \in {"enabled", "priority", "default_params"} |->
     IF k \in DOMAIN object THEN Some(object[k]) ELSE Absent]

\* json.dump(self.config): the document of the in-memory configuration
json_dump(cfg) ==
  [k \in DOMAIN cfg |->
     IF k = "platform_settings"
     THEN [p \in DOMAIN cfg[k] |-> DumpSettings(cfg[k][p])]
     ELSE cfg[k]]

\* json.load(f): the dict a document is read into
json_load(doc) ==
  [k \in DOMAIN doc |->
     IF k = "platform_settings"
     THEN [p \in DOMAIN doc[k] |-> LoadSettings(doc[k][p])]
     ELSE doc[k]]

\* _load_config: the file's document, or the built-in default while no file
\* exists; nothing is written
_load_config(file) ==
  IF file = Absent THEN _get_default_config ELSE json_load(file[1])

\* _save_config: the whole document is written
_save_config(cfg) == Some(json_dump(cfg))

\* self.config.update(imported_config)
Updated(cfg, imported) ==
  [k \in DOMAIN cfg \cup DOMAIN imported |->
     IF k \in DOMAIN imported THEN imported[k] ELSE cfg[k]]

\* the record of __init__ on a path that holds no document, or the default
Constructed ==
  [name |-> "__init__", arg |-> <<>>, before |-> _get_default_config,
   wrote |-> FALSE, raised |-> FALSE, ret |-> Absent,
   prev |-> [name |-> "", arg |-> <<>>, before |-> _get_default_config,
             wrote |-> FALSE]]

\* The end of a DataConfigManager operation: the configuration it leaves,
\* whether it called _save_config, whether it raised, and what it returned.
\* The record keeps the configuration before it and the operation before it.
Operation(name, arg, cfg, wrote, raised, ret) ==
  /\ configOps < budget.configOps
  /\ configOps' = configOps + 1
  /\ config' = cfg
  /\ disk' = IF wrote THEN _save_config(cfg) ELSE disk
  /\ op' = [name |-> name, arg |-> arg, before |-> config, wrote |-> wrote,
            raised |-> raised, ret |-> ret,
            prev |-> [name |-> op.name, arg |-> op.arg, before |-> op.before,
                      wrote |-> op.wrote]]
  /\ UNCHANGED <<routerVars, frameVars, budget, threads>>

\* DataConfigManager(config_file) built again over the persisted document
Construct ==
  Operation("__init__", <<>>, _load_config(disk), FALSE, FALSE, Absent)

set_platform_preferences(data_type, ps) ==
  Operation("set_platform_preferences", <<data_type>>,
            [config EXCEPT !.platform_preferences =
               [dt \in DOMAIN config.platform_preferences \cup {data_type} |->
                  IF dt = data_type THEN ps ELSE config.platform_preferences[dt]]],
            TRUE, FALSE, Absent)

\* platform_settings[platform] = settings: the whole entry is replaced
set_platform_settings(platform, settings) ==
  Operation("set_platform_settings", <<platform>>,
            [config EXCEPT !.platform_settings =
               [q \in DOMAIN config.platform_settings \cup {platform} |->
                  IF q = platform THEN settings ELSE config.platform_settings[q]]],
            TRUE, FALSE, Absent)

enable_platform(platform) ==
  Operation("enable_platform", <<platform>>,
            WithSetting(config, platform, "enabled", TRUE), TRUE, FALSE, Absent)

disable_platform(platform) ==
  Operation("disable_platform", <<platform>>,
            WithSetting(config, platform, "enabled", FALSE), TRUE, FALSE, Absent)

\* mutant: the setter without its _save_config call
set_platform_priority_NoSave(platform, priority) ==
  Operation("set_platform_priority", <<platform>>,
            WithSetting(config, platform, "priority", priority), FALSE, FALSE, Absent)

set_platform_priority(platform, priority) ==
  Operation("set_platform_priority", <<platform>>,
            WithSetting(config, platform, "priority", priority), TRUE, FALSE, Absent)

set_default_params(platform, params) ==
  Operation("set_default_params", <<platform>>,
            WithSetting(config, platform, "default_params", params),
            TRUE, FALSE, Absent)

\* a strategy outside valid_strategies raises ValueError before any write
set_fallback_strategy(strategy) ==
  IF strategy \notin ValidStrategies
  THEN Operation("set_fallback_strategy", <<strategy>>, config, FALSE, TRUE, Absent)
  ELSE Operation("set_fallback_strategy", <<strategy>>,
                 [config EXCEPT !.fallback_strategy = strategy], TRUE, FALSE, Absent)

\* import_config: file is the document at file_path, <<>> when it cannot be
\* read; the failure is printed and nothing is written
import_config(file) ==
  IF file = Absent
  THEN Operation("import_config", file, config, FALSE, FALSE, Absent)
  ELSE Operation("import_config", file, Updated(config, json_load(file[1])),
                 TRUE, FALSE, Absent)

reset_to_default ==
  Operation("reset_to_default", <<>>, _get_default_config, TRUE, FALSE, Absent)

(***************************************************************************)
(* SmartDataRouter: performance tracker and ordering                       *)
(* A float is kept as an exact fraction <<numerator, denominator>>; times  *)
(* are in tenths of a second, so 0.1 is <<1, 1>> and 5.0 is <<50, 1>>.     *)
(***************************************************************************)
FracLess(a, b) == a[1] * b[2] < b[1] * a[2]
FracMax(a, b) == IF FracLess(a, b) THEN b ELSE a
FracDiv(a, b) == <<a[1] * b[2], a[2] * b[1]>>

\* mutant: the entry starts with one successful request
NewPerf_OneSuccess ==
  [total_requests |-> 0, successful_requests |-> 1, total_time |-> 0,
   success_rate |-> <<0, 1>>, avg_time |-> <<0, 1>>]

\* the entry a platform gets at its first attempt
NewPerf ==
  [total_requests |-> 0, successful_requests |-> 0, total_time |-> 0,
   success_rate |-> <<0, 1>>, avg_time |-> <<0, 1>>]

\* the entry of a platform, the zeros while it has none
PerfOf(perfs, p) == IF p \in DOMAIN perfs THEN perfs[p] ELSE NewPerf

\* mutant: a platform without history scores 0
NeutralPerf_Zero == [success_rate |-> <<0, 1>>, avg_time |-> <<50, 1>>]

\* the default of platform_performance.get in platform_score
NeutralPerf == [success_rate |-> <<1, 2>>, avg_time |-> <<50, 1>>]
MinAvgTime == <<1, 1>>

\* mutant: only a successful attempt is counted
_update_platform_performance_SuccessOnly(perfs, platform, success, response_time) ==
  LET old == IF platform \in DOMAIN perfs THEN perfs[platform] ELSE NewPerf
      total == IF success THEN old.total_requests + 1 ELSE old.total_requests
      succ == IF success THEN old.successful_requests + 1 ELSE old.successful_requests
      time == IF success THEN old.total_time + response_time ELSE old.total_time
      perf == [total_requests |-> total,
               successful_requests |-> succ,
               total_time |-> time,
               success_rate |-> <<succ, total>>,
               avg_time |-> IF succ > 0 THEN <<time, succ>> ELSE old.avg_time]
  IN [q \in DOMAIN perfs \cup {platform} |-> IF q = platform THEN perf ELSE perfs[q]]

_update_platform_performance(perfs, platform, success, response_time) ==
  LET old == IF platform \in DOMAIN perfs THEN perfs[platform] ELSE NewPerf
      total == old.total_requests + 1
      succ == IF success THEN old.successful_requests + 1 ELSE old.successful_requests
      time == IF success THEN old.total_time + response_time ELSE old.total_time
      perf == [total_requests |-> total,
               successful_requests |-> succ,
               total_time |-> time,
               success_rate |-> <<succ, total>>,
               avg_time |-> IF succ > 0 THEN <<time, succ>> ELSE old.avg_time]
  IN [q \in DOMAIN perfs \cup {platform} |-> IF q = platform THEN perf ELSE perfs[q]]

\* platform_score: the sort key (priority, -performance_score)
performance_score(perfs, platform) ==
  LET perf == IF platform \in DOMAIN perfs THEN perfs[platform] ELSE NeutralPerf
  IN FracDiv(perf.success_rate, FracMax(perf.avg_time, MinAvgTime))

\* mutant: the key is the priority alone
ScoreLess_PriorityOnly(cfg, perfs, a, b) ==
  get_platform_priority(cfg, a) < get_platform_priority(cfg, b)

\* key(a) < key(b) in Python's tuple order
ScoreLess(cfg, perfs, a, b) ==
  LET pa == get_platform_priority(cfg, a)
      pb == get_platform_priority(cfg, b)
  IN \/ pa < pb
     \/ /\ pa = pb
        /\ FracLess(performance_score(perfs, b), performance_score(perfs, a))

\* insert x behind every element that does not sort after it
RECURSIVE InsertSorted(_, _, _, _)
InsertSorted(cfg, perfs, x, sortedSeq) ==
  IF sortedSeq = <<>> THEN <<x>>
  ELSE IF ScoreLess(cfg, perfs, x, Head(sortedSeq))
       THEN <<x>> \o sortedSeq
       ELSE <<Head(sortedSeq)>> \o InsertSorted(cfg, perfs, x, Tail(sortedSeq))

RECURSIVE SortFrom(_, _, _, _)
SortFrom(cfg, perfs, ps, acc) ==
  IF ps = <<>> THEN acc
  ELSE SortFrom(cfg, perfs, Tail(ps), InsertSorted(cfg, perfs, Head(ps), acc))

\* sorted(platforms, key=platform_score): a stable sort
_sort_platforms_by_priority(cfg, perfs, ps) == SortFrom(cfg, perfs, ps, <<>>)

(***************************************************************************)
(* SmartDataRouter: request history                                        *)
(***************************************************************************)
HistoryCap == 1000
HistoryKeep == 500

\* mutant: the truncation keeps the oldest records
_record_request_KeepsOldest(history, stamp, data_type, tried, success, execution_time) ==
  LET record == [timestamp |-> stamp, data_type |-> data_type,
                 platforms_tried |-> tried, success |-> success,
                 execution_time |-> execution_time]
      appended == Append(history, record)
  IN IF Len(appended) > HistoryCap
     THEN SubSeq(appended, 1, HistoryKeep)
     ELSE appended

_record_request(history, stamp, data_type, tried, success, execution_time) ==
  LET record == [timestamp |-> stamp, data_type |-> data_type,
                 platforms_tried |-> tried, success |-> success,
                 execution_time |-> execution_time]
      appended == Append(history, record)
  IN IF Len(appended) > HistoryCap
     THEN SubSeq(appended, Len(appended) - HistoryKeep + 1, Len(appended))
     ELSE appended

(***************************************************************************)
(* SmartDataRouter: route_data_request and _try_platforms                  *)
(***************************************************************************)
\* the data types callers ask for
RouteDataTypes == {"stock_data", "macro_data"}

\* the platforms and strategies the configuration calls name
ConfigPlatforms == {"akshare", "tushare"}
StrategyChoices == {"fail", "bogus"}

\* keyword names a caller may pass in params
ParamChoices == {{"symbol"}, {"symbol", "platform"}}

\* preferred_platforms: None, or a list given by the caller
PreferredChoices ==
  {Absent, Some(<<>>), Some(<<"tushare", "akshare">>), Some(<<"simfin", "ghost">>)}

\* error messages, by kind and subject
NoPlatformError(data_type) == <<"no_platform", data_type>>
QualityError(platform) == <<"quality", platform>>
FetchError(platform) == <<"fetch_failed", platform>>
AllFailedError(data_type) == <<"all_failed", data_type>>

\* mutant: the dict without its error message
EmptyCandidatesResult_NoError(data_type) ==
  [success |-> FALSE,
   data |-> Absent,
   metadata |-> [data_type |-> data_type, platforms_tried |-> <<>>,
                 execution_time |-> 0]]

\* the dict returned when the candidate list is empty
EmptyCandidatesResult(data_type) ==
  [success |-> FALSE,
   error |-> NoPlatformError(data_type),
   data |-> Absent,
   metadata |-> [data_type |-> data_type, platforms_tried |-> <<>>,
                 execution_time |-> 0]]

\* mutant: the rejected payload is dropped
QualityFailureResult_NoData(data_type, platform, tried, errs, data, platform_time) ==
  [success |-> FALSE,
   error |-> QualityError(platform),
   data |-> Absent,
   metadata |-> [data_type |-> data_type, platform_used |-> platform,
                 platforms_tried |-> tried, errors |-> errs,
                 platform_time |-> platform_time]]

\* the dict returned when a rejected payload ends the call
QualityFailureResult(data_type, platform, tried, errs, data, platform_time) ==
  [success |-> FALSE,
   error |-> QualityError(platform),
   data |-> Some(data),
   metadata |-> [data_type |-> data_type, platform_used |-> platform,
                 platforms_tried |-> tried, errors |-> errs,
                 platform_time |-> platform_time]]

\* mutant: the dict names the first platform tried
SuccessResult_FirstTried(data_type, platform, tried, data, platform_time, quality_check) ==
  [success |-> TRUE,
   data |-> Some(data),
   metadata |-> [data_type |-> data_type, platform_used |-> tried[1],
                 platforms_tried |-> tried, platform_time |-> platform_time,
                 quality_passed |-> quality_check]]

\* the dict returned on the first payload that is accepted
SuccessResult(data_type, platform, tried, data, platform_time, quality_check) ==
  [success |-> TRUE,
   data |-> Some(data),
   metadata |-> [data_type |-> data_type, platform_used |-> platform,
                 platforms_tried |-> tried, platform_time |-> platform_time,
                 quality_passed |-> quality_check]]

\* mutant: the except branch returns without naming the platform
FetchFailureResult_NoPlatformUsed(data_type, platform, tried, errs) ==
  [success |-> FALSE,
   error |-> FetchError(platform),
   data |-> Absent,
   metadata |-> [data_type |-> data_type,
                 platforms_tried |-> tried, errors |-> errs]]

\* the dict returned from the except branch when fallback is off
FetchFailureResult(data_type, platform, tried, errs) ==
  [success |-> FALSE,
   error |-> FetchError(platform),
   data |-> Absent,
   metadata |-> [data_type |-> data_type, platform_used |-> platform,
                 platforms_tried |-> tried, errors |-> errs]]

\* mutant: only the last error is kept
AllFailedResult_LastErrorOnly(data_type, tried, errs) ==
  [success |-> FALSE,
   error |-> AllFailedError(data_type),
   data |-> Absent,
   metadata |-> [data_type |-> data_type, platforms_tried |-> tried,
                 errors |-> IF errs = <<>> THEN <<>> ELSE <<errs[Len(errs)]>>]]

\* the dict returned after the loop
AllFailedResult(data_type, tried, errs) ==
  [success |-> FALSE,
   error |-> AllFailedError(data_type),
   data |-> Absent,
   metadata |-> [data_type |-> data_type, platforms_tried |-> tried,
                 errors |-> errs]]

\* result["metadata"]["execution_time"] = execution_time
WithExecutionTime(res, t) ==
  [res EXCEPT !.metadata =
     [k \in DOMAIN res.metadata \cup {"execution_time"} |->
        IF k = "execution_time" THEN t ELSE res.metadata[k]]]

\* mutant: the loop without the enabled check
SkipsPlatform_Never(cfg, platform) == FALSE

\* "if not config_manager.is_platform_enabled(platform): continue"
SkipsPlatform(cfg, platform) == ~is_platform_enabled(cfg, platform)

\* mutant: "except ValueError"
Caught_ValueErrorOnly(exc) == exc = "ValueError"

\* "except Exception": the exception classes the handler catches
Caught(exc) == TRUE

\* mutant: the first failure always ends the call
StopsOnFailure_Always(c) == TRUE

\* "if not enable_fallback: return ..." after a failed or rejected attempt
StopsOnFailure(c) == ~c.enable_fallback

\* mutant: the returned call is counted as a failed one
RecordReturned_AsFailure(perfs, platform, platform_time) ==
  _update_platform_performance(perfs, platform, FALSE, 0)

\* "self._update_platform_performance(platform, True, platform_time)", the
\* statement after get_data has returned and before the quality check
RecordReturned(perfs, platform, platform_time) ==
  _update_platform_performance(perfs, platform, TRUE, platform_time)

\* the log entry of one loop iteration
Turn(cfg, platform, called, reached, adapter_raised, raised, data, rejected) ==
  [platform |-> platform,
   enabled |-> is_platform_enabled(cfg, platform),  \* when its turn came
   called |-> called,                  \* get_data was invoked
   reached |-> reached,                \* get_data invoked the provider function
   adapter_raised |-> adapter_raised,  \* the provider function raised
   raised |-> raised,                  \* get_data raised into the router
   data |-> data,                      \* the text get_data returned, if any
   rejected |-> rejected]              \* the quality gate ran and rejected it

\* One iteration of the for loop of _try_platforms on `platform`, the
\* provider behaving as `out` and taking `lat`.  ret is the returned dict,
\* or <<>> when the loop goes on; escapes says an exception left the loop.
Iteration(cfg, perfs, c, platform, tried, errs, out, lat) ==
  IF SkipsPlatform(cfg, platform)
  THEN [tried |-> tried, errors |-> errs, perfs |-> perfs, ret |-> Absent,
        spent |-> 0, escapes |-> FALSE,
        turn |-> Turn(cfg, platform, FALSE, FALSE, FALSE, FALSE, Absent, FALSE)]
  ELSE
    LET tried1 == Append(tried, platform)
        merged_params == get_default_params(cfg, platform) \cup c.params
        got == get_data(platform, c.data_type, merged_params, out)
        reached == Dispatches(platform, c.data_type, merged_params)
    IN IF ~got.raises
       THEN
         LET data == got.text
             perfs1 == RecordReturned(perfs, platform, lat)
         IN IF c.quality_check
               /\ ~_validate_data_quality(data, c.data_type, cfg.data_quality_rules)
            THEN
              LET errs1 == Append(errs, QualityError(platform))
              IN [tried |-> tried1, errors |-> errs1, perfs |-> perfs1,
                  spent |-> lat, escapes |-> FALSE,
                  turn |-> Turn(cfg, platform, TRUE, reached, reached /\ out.raises,
                                FALSE, Some(data), TRUE),
                  ret |-> IF StopsOnFailure(c)
                          THEN Some(QualityFailureResult(c.data_type, platform,
                                                         tried1, errs1, data, lat))
                          ELSE Absent]
            ELSE [tried |-> tried1, errors |-> errs, perfs |-> perfs1,
                  spent |-> lat, escapes |-> FALSE,
                  turn |-> Turn(cfg, platform, TRUE, reached, reached /\ out.raises,
                                FALSE, Some(data), FALSE),
                  ret |-> Some(SuccessResult(c.data_type, platform, tried1, data,
                                             lat, c.quality_check))]
       ELSE IF Caught("TypeError")
       THEN
         LET errs1 == Append(errs, FetchError(platform))
             perfs1 == _update_platform_performance(perfs, platform, FALSE, 0)
         IN [tried |-> tried1, errors |-> errs1, perfs |-> perfs1,
             spent |-> 0, escapes |-> FALSE,
             turn |-> Turn(cfg, platform, TRUE, FALSE, FALSE, TRUE, Absent, FALSE),
             ret |-> IF StopsOnFailure(c)
                     THEN Some(FetchFailureResult(c.data_type, platform, tried1, errs1))
                     ELSE Absent]
       ELSE [tried |-> tried1, errors |-> errs, perfs |-> perfs, ret |-> Absent,
             spent |-> 0, escapes |-> TRUE,
             turn |-> Turn(cfg, platform, TRUE, FALSE, FALSE, TRUE, Absent, FALSE)]

\* mutant: the record lists only the platform the result names
RecordedTried_OnlyUsed(ret) ==
  IF "platform_used" \in DOMAIN ret.metadata THEN <<ret.metadata.platform_used>>
  ELSE <<>>

\* result["metadata"]["platforms_tried"], the list handed to _record_request
RecordedTried(ret) == ret.metadata.platforms_tried

\* route_data_request up to the call of _try_platforms; an empty candidate
\* list returns at once
RouteBegin(data_type, params, preferred, enable_fallback, quality_check) ==
  /\ pc # "trying"
  /\ calls < budget.calls
  /\ calls' = calls + 1
  /\ call' = [data_type |-> data_type, params |-> params,
              preferred_platforms |-> preferred,
              enable_fallback |-> enable_fallback, quality_check |-> quality_check]
  /\ hist0' = Len(request_history)
  /\ turns' = <<>>
  /\ platforms_tried' = <<>>
  /\ errors' = <<>>
  /\ elapsed' = 0
  /\ idx' = 1
  /\ LET preferred_platforms ==
           IF preferred = Absent THEN get_enabled_platforms(config, data_type)
           ELSE preferred[1]
     IN IF preferred_platforms = <<>>
        THEN /\ result' = Some(EmptyCandidatesResult(data_type))
             /\ platforms' = <<>>
             /\ pc' = "done"
        ELSE /\ result' = Absent
             /\ platforms' = _sort_platforms_by_priority(config, platform_performance,
                                                         preferred_platforms)
             /\ pc' = "trying"
  /\ UNCHANGED <<cfgVars, routerVars, configOps, op, budget, threads, batch>>

\* one iteration of the loop; when it returns, or the loop ends, the rest
\* of route_data_request runs: _record_request and the return.  An exception
\* nothing catches ends the call without a result (pc = "raised").
RouteAttempt(out, lat) ==
  /\ pc = "trying"
  /\ LET it == Iteration(config, platform_performance, call, platforms[idx],
                         platforms_tried, errors, out, lat)
         ret == IF it.ret = Absent /\ idx = Len(platforms)
                THEN Some(AllFailedResult(call.data_type, it.tried, it.errors))
                ELSE it.ret
         execution_time == elapsed + it.spent
     IN /\ platform_performance' = it.perfs
        /\ platforms_tried' = it.tried
        /\ errors' = it.errors
        /\ elapsed' = execution_time
        /\ turns' = Append(turns, it.turn)
        /\ IF it.escapes
           THEN /\ pc' = "raised"
                /\ UNCHANGED <<idx, result, request_history>>
           ELSE IF ret = Absent
           THEN /\ idx' = idx + 1
                /\ UNCHANGED <<pc, result, request_history>>
           ELSE /\ request_history' =
                     _record_request(request_history, calls, call.data_type,
                                     RecordedTried(ret[1]), ret[1].success,
                                     execution_time)
                /\ result' = Some(WithExecutionTime(ret[1], execution_time))
                /\ pc' = "done"
                /\ UNCHANGED idx
  /\ UNCHANGED <<cfgVars, call, platforms, hist0, calls, configOps, op, budget,
                 threads, batch>>

(***************************************************************************)
(* SmartDataRouter: best platform and preference optimizer                 *)
(***************************************************************************)
\* mutant: the first enabled platform of the preference list
get_best_platform_for_data_type_Unsorted(cfg, perfs, data_type) ==
  LET ps == get_enabled_platforms(cfg, data_type)
  IN IF ps = <<>> THEN Absent ELSE Some(ps[1])

\* mutant: the lowest ranked enabled platform
get_best_platform_for_data_type_Last(cfg, perfs, data_type) ==
  LET ps == get_enabled_platforms(cfg, data_type)
  IN IF ps = <<>> THEN Absent
     ELSE Some(_sort_platforms_by_priority(cfg, perfs, ps)[Len(ps)])

\* None is <<>>
get_best_platform_for_data_type(cfg, perfs, data_type) ==
  LET ps == get_enabled_platforms(cfg, data_type)
  IN IF ps = <<>> THEN Absent
     ELSE Some(_sort_platforms_by_priority(cfg, perfs, ps)[1])

\* mutant: the read saves the configuration
get_best_platform_Saves(data_type) ==
  Operation("get_best_platform", <<data_type>>, config, TRUE, FALSE,
            Some(get_best_platform_for_data_type(config, platform_performance,
                                                 data_type)))

\* the module-level get_best_platform(data_type): a read
get_best_platform(data_type) ==
  Operation("get_best_platform", <<data_type>>, config, FALSE, FALSE,
            Some(get_best_platform_for_data_type(config, platform_performance,
                                                 data_type)))

\* the enabled platforms of a preference list in sorted order, when the
\* list has more than one of them
OptimizedPlatforms(cfg, perfs, current_platforms) ==
  LET available_platforms == FilterEnabled(cfg, current_platforms)
  IN IF Len(available_platforms) <= 1 THEN available_platforms
     ELSE _sort_platforms_by_priority(cfg, perfs, available_platforms)

\* mutant: every data type with two enabled platforms is written
NeedsUpdate_Always(cfg, perfs, current_platforms) ==
  Len(FilterEnabled(cfg, current_platforms)) > 1

\* "if optimized_platforms != available_platforms"
NeedsUpdate(cfg, perfs, current_platforms) ==
  OptimizedPlatforms(cfg, perfs, current_platforms) #
    FilterEnabled(cfg, current_platforms)

\* optimize_platform_preferences: the configuration it leaves and the data
\* types it called set_platform_preferences for
optimize_platform_preferences(cfg, perfs) ==
  LET written == {dt \in DOMAIN cfg.platform_preferences :
                    NeedsUpdate(cfg, perfs, cfg.platform_preferences[dt])}
  IN [config |-> [cfg EXCEPT !.platform_preferences =
                    [dt \in DOMAIN cfg.platform_preferences |->
                       IF dt \in written
                       THEN OptimizedPlatforms(cfg, perfs, cfg.platform_preferences[dt])
                       ELSE cfg.platform_preferences[dt]]],
      written |-> written]

\* the module-level optimize_preferences()
optimize_preferences ==
  LET done == optimize_platform_preferences(config, platform_performance)
  IN Operation("optimize_preferences", <<>>, done.config, done.written # {},
               FALSE, Absent)

\* mutant: the request history survives the reset
reset_performance_stats_KeepsHistory ==
  /\ configOps < budget.configOps
  /\ configOps' = configOps + 1
  /\ platform_performance' = [p \in {} |-> NewPerf]
  /\ op' = [name |-> "reset_performance_stats", arg |-> <<>>, before |-> config,
            wrote |-> FALSE, raised |-> FALSE, ret |-> Absent,
            prev |-> [name |-> op.name, arg |-> op.arg, before |-> op.before,
                      wrote |-> op.wrote]]
  /\ UNCHANGED <<cfgVars, request_history, frameVars, budget, threads>>

\* reset_performance_stats(): both containers are cleared, the
\* configuration is not touched
reset_performance_stats ==
  /\ configOps < budget.configOps
  /\ configOps' = configOps + 1
  /\ platform_performance' = [p \in {} |-> NewPerf]
  /\ request_history' = <<>>
  /\ op' = [name |-> "reset_performance_stats", arg |-> <<>>, before |-> config,
            wrote |-> FALSE, raised |-> FALSE, ret |-> Absent,
            prev |-> [name |-> op.name, arg |-> op.arg, before |-> op.before,
                      wrote |-> op.wrote]]
  /\ UNCHANGED <<cfgVars, frameVars, budget, threads>>

(***************************************************************************)
(* Specification                                                           *)
(***************************************************************************)
Init ==
  /\ config = _get_default_config
  /\ disk = Absent
  /\ platform_performance = [p \in {} |-> NewPerf]
  /\ request_history = <<>>
  /\ pc = "idle"
  /\ call = [data_type |-> "stock_data", params |-> {},
             preferred_platforms |-> Absent,
             enable_fallback |-> TRUE, quality_check |-> TRUE]
  /\ platforms = <<>>
  /\ idx = 1
  /\ platforms_tried = <<>>
  /\ errors = <<>>
  /\ elapsed = 0
  /\ result = Absent
  /\ turns = <<>>
  /\ hist0 = 0
  /\ calls = 0
  /\ configOps = 0
  /\ op = Constructed
  /\ budget = [calls |-> MaxCalls, configOps |-> MaxConfigOps]
  /\ threads = <<>>
  /\ batch = NoBatch

Next ==
  \/ \E dt \in RouteDataTypes, params \in ParamChoices, preferred \in PreferredChoices,
        ef \in BOOLEAN, qc \in BOOLEAN :
       RouteBegin(dt, params, preferred, ef, qc)
  \/ \E out \in AdapterOutcomes, lat \in Latencies : RouteAttempt(out, lat)
  \/ \E p \in ConfigPlatforms : enable_platform(p)
  \/ \E p \in ConfigPlatforms : disable_platform(p)
  \/ \E s \in StrategyChoices : set_fallback_strategy(s)

Spec == Init /\ [][Next]_vars

(***************************************************************************)
(* A router that has served HistoryStart successful akshare calls, one     *)
(* short of the history cap: its history holds their records (stamped      *)
(* 1 - HistoryStart .. 0, the calls of the behaviour being 1, 2, ...) and  *)
(* its tracker their counts.                                               *)
(***************************************************************************)
HistoryStart == HistoryCap - 1

ServedRecord(i) ==
  [timestamp |-> i - HistoryStart, data_type |-> "stock_data",
   platforms_tried |-> <<"akshare">>, success |-> TRUE, execution_time |-> 3]

ServedPerformance ==
  [p \in {"akshare"} |->
     [total_requests |-> HistoryStart, successful_requests |-> HistoryStart,
      total_time |-> 3 * HistoryStart,
      success_rate |-> <<HistoryStart, HistoryStart>>,
      avg_time |-> <<3 * HistoryStart, HistoryStart>>]]

\* the preferred_platforms and provider behaviours of the later calls
HistoryPreferred == {Absent, Some(<<"tushare">>)}
HistoryOutcomes ==
  {[raises |-> TRUE, text |-> <<>>], [raises |-> FALSE, text |-> GoodReport]}

InitHistory ==
  /\ config = _get_default_config
  /\ disk = Absent
  /\ platform_performance = ServedPerformance
  /\ request_history = [i \in 1..HistoryStart |-> ServedRecord(i)]
  /\ pc = "idle"
  /\ call = [data_type |-> "stock_data", params |-> {},
             preferred_platforms |-> Absent,
             enable_fallback |-> TRUE, quality_check |-> TRUE]
  /\ platforms = <<>>
  /\ idx = 1
  /\ platforms_tried = <<>>
  /\ errors = <<>>
  /\ elapsed = 0
  /\ result = Absent
  /\ turns = <<>>
  /\ hist0 = HistoryStart
  /\ calls = 0
  /\ configOps = 0
  /\ op = Constructed
  /\ budget = [calls |-> MaxHistoryCalls, configOps |-> 0]
  /\ threads = <<>>
  /\ batch = NoBatch

NextHistory ==
  \/ \E preferred \in HistoryPreferred, ef \in BOOLEAN :
       RouteBegin("stock_data", {"symbol"}, preferred, ef, TRUE)
  \/ \E out \in HistoryOutcomes : RouteAttempt(out, 3)

SpecHistory == InitHistory /\ [][NextHistory]_vars

(***************************************************************************)
(* The configuration store and the operations that read and write it, on   *)
(* a router that has served no call or one call.                           *)
(***************************************************************************)
\* the router after no call, after one call akshare answered, after one
\* call akshare failed and tushare answered, and after one call akshare failed
ServedOnce(tried) ==
  <<[timestamp |-> 0, data_type |-> "stock_data", platforms_tried |-> tried,
     success |-> TRUE, execution_time |-> 3]>>

RouterStarts ==
  {[performance |-> [p \in {} |-> NewPerf], history |-> <<>>],
   [performance |->
      _update_platform_performance([p \in {} |-> NewPerf], "akshare", TRUE, 3),
    history |-> ServedOnce(<<"akshare">>)],
   [performance |->
      _update_platform_performance(
        _update_platform_performance([p \in {} |-> NewPerf], "akshare", FALSE, 0),
        "tushare", TRUE, 3),
    history |-> ServedOnce(<<"akshare", "tushare">>)],
   [performance |->
      _update_platform_performance([p \in {} |-> NewPerf], "akshare", FALSE, 0),
    history |-> <<[timestamp |-> 0, data_type |-> "stock_data",
                   platforms_tried |-> <<"akshare">>, success |-> FALSE,
                   execution_time |-> 0]>>]}

\* the arguments of the configuration calls
StoreSwitchPlatforms == {"akshare"}
StorePreferences == {<<"tushare", "akshare">>}
\* the calls of set_platform_preferences: the two stock_data platforms
\* swapped, and the three financial_data platforms with the last one first
StorePreferenceCalls ==
  {[data_type |-> "stock_data", platforms |-> ps] : ps \in StorePreferences} \cup
  {[data_type |-> "financial_data", platforms |-> <<"simfin", "akshare", "tushare">>]}
StoreSettings == {NoSettings}
StorePriorities == {1}
StoreParams == {{"freq"}}
\* data types asked for their best platform: two preferred platforms, one
BestPlatformTypes == {"stock_data", "macro_data"}
\* documents at the path given to import_config: none, or one that carries
\* a strategy and the settings of akshare alone
ImportFiles ==
  {Absent,
   Some([fallback_strategy |-> "all_platforms",
         platform_settings |-> [p \in {"akshare"} |-> [enabled |-> FALSE]]])}

InitStore ==
  /\ config = _get_default_config
  /\ disk \in {Absent, _save_config(_get_default_config)}
  /\ \E start \in RouterStarts :
       /\ platform_performance = start.performance
       /\ request_history = start.history
  /\ pc = "idle"
  /\ call = [data_type |-> "stock_data", params |-> {},
             preferred_platforms |-> Absent,
             enable_fallback |-> TRUE, quality_check |-> TRUE]
  /\ platforms = <<>>
  /\ idx = 1
  /\ platforms_tried = <<>>
  /\ errors = <<>>
  /\ elapsed = 0
  /\ result = Absent
  /\ turns = <<>>
  /\ hist0 = 0
  /\ calls = 0
  /\ configOps = 0
  /\ op = Constructed
  /\ budget = [calls |-> 0, configOps |-> MaxStoreOps]
  /\ threads = <<>>
  /\ batch = NoBatch

NextStore ==
  \/ Construct
  \/ \E c \in StorePreferenceCalls : set_platform_preferences(c.data_type, c.platforms)
  \/ \E settings \in StoreSettings : set_platform_settings("tushare", settings)
  \/ \E p \in StoreSwitchPlatforms : enable_platform(p)
  \/ \E p \in StoreSwitchPlatforms : disable_platform(p)
  \/ \E priority \in StorePriorities : set_platform_priority("tushare", priority)
  \/ \E params \in StoreParams : set_default_params("ghost", params)
  \/ \E s \in StrategyChoices : set_fallback_strategy(s)
  \/ \E file \in ImportFiles : import_config(file)
  \/ reset_to_default
  \/ \E dt \in BestPlatformTypes : get_best_platform(dt)
  \/ optimize_preferences
  \/ reset_performance_stats

SpecStore == InitStore /\ [][NextStore]_vars

(***************************************************************************)
(* Several threads calling route_data_request on the shared smart_router.  *)
(* Each call is route_data_request(data_type, params, [platform],          *)
(* enable_fallback=False, quality_check=False): one attempt, the tracker   *)
(* update, the history record.  The router holds no lock, so the           *)
(* statements of _update_platform_performance of different threads         *)
(* interleave: "perf[k] += v" is a read of perf[k] and a later write.      *)
(* Creating the entry and "success_rate = ...; avg_time = ..." are each    *)
(* taken as one step.                                                      *)
(***************************************************************************)
ThreadIds == 1..MaxThreads
ThreadPlatforms == {"akshare", "tushare"}

\* the counters "+=" is applied to, in the order of the statements
NextCounter(counter) ==
  CASE counter = "total_requests" -> "successful_requests"
    [] counter = "successful_requests" -> "total_time"
    [] counter = "total_time" -> ""

\* the call up to the return of get_data: success says it returned
ThreadCall(t, platform, success) ==
  /\ threads[t].pc = "idle"
  /\ threads' = [threads EXCEPT ![t] =
                   [pc |-> "entry", platform |-> platform, success |-> success,
                    counter |-> "", tmp |-> 0]]
  /\ calls' = calls + 1
  /\ UNCHANGED <<cfgVars, routerVars, pc, call, platforms, idx, platforms_tried,
                 errors, elapsed, result, turns, hist0, configOps, op, budget,
                 batch>>

\* "if platform not in self.platform_performance: ... = {zeros}"
ThreadEnsureEntry(t) ==
  /\ threads[t].pc = "entry"
  /\ platform_performance' =
       [q \in DOMAIN platform_performance \cup {threads[t].platform} |->
          PerfOf(platform_performance, q)]
  /\ threads' = [threads EXCEPT ![t].pc = "read", ![t].counter = "total_requests"]
  /\ UNCHANGED <<cfgVars, request_history, frameVars, configOps, op, budget>>

\* the read of perf[counter] in "perf[counter] += v"
ThreadRead(t) ==
  /\ threads[t].pc = "read"
  /\ threads' = [threads EXCEPT
                   ![t].pc = "write",
                   ![t].tmp = platform_performance[threads[t].platform]
                                                  [threads[t].counter]]
  /\ UNCHANGED <<cfgVars, routerVars, frameVars, configOps, op, budget>>

\* the write of perf[counter] in "perf[counter] += v"; a failed attempt
\* goes on to the statistics after total_requests
ThreadWrite(t) ==
  /\ threads[t].pc = "write"
  /\ LET counter == threads[t].counter
         v == IF counter = "total_time" THEN 3 ELSE 1
         next == IF threads[t].success THEN NextCounter(counter) ELSE ""
     IN /\ platform_performance' =
             [platform_performance EXCEPT
                ![threads[t].platform][counter] = threads[t].tmp + v]
        /\ threads' = [threads EXCEPT
                         ![t].pc = IF next = "" THEN "stats" ELSE "read",
                         ![t].counter = next]
  /\ UNCHANGED <<cfgVars, request_history, frameVars, configOps, op, budget>>

\* perf["success_rate"] = ...; if successful_requests > 0: perf["avg_time"] = ...
ThreadStats(t) ==
  /\ threads[t].pc = "stats"
  /\ LET perf == platform_performance[threads[t].platform]
     IN platform_performance' =
          [platform_performance EXCEPT
             ![threads[t].platform].success_rate =
                <<perf.successful_requests, perf.total_requests>>,
             ![threads[t].platform].avg_time =
                IF perf.successful_requests > 0
                THEN <<perf.total_time, perf.successful_requests>>
                ELSE perf.avg_time]
  /\ threads' = [threads EXCEPT ![t].pc = "record"]
  /\ UNCHANGED <<cfgVars, request_history, frameVars, configOps, op, budget>>

\* _record_request and the return of the call
ThreadRecord(t) ==
  /\ threads[t].pc = "record"
  /\ request_history' =
       _record_request(request_history, t, "stock_data",
                       <<threads[t].platform>>, threads[t].success,
                       IF threads[t].success THEN 3 ELSE 0)
  /\ threads' = [threads EXCEPT ![t].pc = "done"]
  /\ UNCHANGED <<cfgVars, platform_performance, frameVars, configOps, op, budget>>

InitThreads ==
  /\ config = _get_default_config
  /\ disk = Absent
  /\ platform_performance = [p \in {} |-> NewPerf]
  /\ request_history = <<>>
  /\ pc = "idle"
  /\ call = [data_type |-> "stock_data", params |-> {},
             preferred_platforms |-> Absent,
             enable_fallback |-> TRUE, quality_check |-> TRUE]
  /\ platforms = <<>>
  /\ idx = 1
  /\ platforms_tried = <<>>
  /\ errors = <<>>
  /\ elapsed = 0
  /\ result = Absent
  /\ turns = <<>>
  /\ hist0 = 0
  /\ calls = 0
  /\ configOps = 0
  /\ op = Constructed
  /\ budget = [calls |-> 0, configOps |-> 0]
  /\ threads = [t \in ThreadIds |->
                  [pc |-> "idle", platform |-> "akshare", success |-> FALSE,
                   counter |-> "", tmp |-> 0]]
  /\ batch = NoBatch

NextThreads ==
  \E t \in ThreadIds :
    \/ \E p \in ThreadPlatforms, success \in BOOLEAN : ThreadCall(t, p, success)
    \/ ThreadEnsureEntry(t)
    \/ ThreadRead(t)
    \/ ThreadWrite(t)
    \/ ThreadStats(t)
    \/ ThreadRecord(t)

SpecThreads == InitThreads /\ [][NextThreads]_vars

(***************************************************************************)
(* SmartDataRouter: create_smart_pipeline and get_multi_platform_data.     *)
(* Both loop over their items and call route_data_request for each; batch  *)
(* holds the loop's position and the dict it fills, batch.log one record   *)
(* per item handled.                                                       *)
(***************************************************************************)
\* a dict with d[key] = value assigned
WithEntry(d, key, value) ==
  [k \in DOMAIN d \cup {key} |-> IF k = key THEN value ELSE d[k]]

EmptyDict == [k \in {} |-> Absent]

\* request.get("name", f"task_{i}"), i counting from 0
TaskName(request, i) ==
  IF request.name = Absent THEN "task_" \o ToString(i - 1) ELSE request.name[1]

\* request.get(key, True)
DefaultTrue(opt) == IF opt = Absent THEN TRUE ELSE opt[1]

\* the entry of a task without data_type
MissingDataTypeResult ==
  [success |-> FALSE, error |-> <<"missing", "data_type">>, data |-> Absent]

\* the entry of a disabled platform in get_multi_platform_data
DisabledPlatformResult(platform) ==
  [success |-> FALSE, error |-> <<"platform", platform, "disabled">>,
   data |-> Absent]

\* sum(1 for r in results.values() if r.get("success", False))
SuccessfulTasks(results) ==
  Cardinality({k \in DOMAIN results : results[k].success})

\* results["_pipeline_metadata"]
PipelineMetadata(pipeline_requests, results) ==
  LET successful_tasks == SuccessfulTasks(results)
  IN [total_tasks |-> Len(pipeline_requests),
      successful_tasks |-> successful_tasks,
      success_rate |-> IF pipeline_requests # <<>>
                       THEN <<successful_tasks, Len(pipeline_requests)>>
                       ELSE <<0, 1>>]

\* the record batch.log gets for one item
Handled(name, routed, c, ps, entry) ==
  [name |-> name,        \* the key the entry was stored under
   routed |-> routed,    \* route_data_request was called for the item
   call |-> c,           \* with these arguments
   platforms |-> ps,     \* and this ordered candidate list
   entry |-> entry]      \* the entry stored

\* create_smart_pipeline(pipeline_requests) up to its loop
PipelineStart(pipeline_requests) ==
  /\ batch.kind = "none"
  /\ pc = "idle"
  /\ batch' = [kind |-> "pipeline", items |-> pipeline_requests, data_type |-> "",
               params |-> {}, i |-> 1, results |-> EmptyDict, log |-> <<>>,
               perfs0 |-> platform_performance,
               history0 |-> Len(request_history), finished |-> FALSE]
  /\ UNCHANGED <<cfgVars, routerVars, pc, call, platforms, idx, platforms_tried,
                 errors, elapsed, result, turns, hist0, calls, configOps, op,
                 budget, threads>>

\* an iteration on a request without data_type: the entry and "continue"
PipelineSkipTask ==
  /\ batch.kind = "pipeline" /\ ~batch.finished /\ pc = "idle"
  /\ batch.i <= Len(batch.items)
  /\ batch.items[batch.i].data_type = Absent
  /\ LET task_name == TaskName(batch.items[batch.i], batch.i)
     IN batch' = [batch EXCEPT
                    !.results = WithEntry(@, task_name, MissingDataTypeResult),
                    !.log = Append(@, Handled(task_name, FALSE, call, <<>>,
                                              MissingDataTypeResult)),
                    !.i = @ + 1]
  /\ UNCHANGED <<cfgVars, routerVars, pc, call, platforms, idx, platforms_tried,
                 errors, elapsed, result, turns, hist0, calls, configOps, op,
                 budget, threads>>

\* an iteration on a request with data_type: the call of route_data_request
PipelineRouteTask ==
  /\ batch.kind = "pipeline" /\ ~batch.finished /\ pc = "idle"
  /\ batch.i <= Len(batch.items)
  /\ batch.items[batch.i].data_type # Absent
  /\ LET request == batch.items[batch.i]
     IN RouteBegin(request.data_type[1], request.params, request.platforms,
                   DefaultTrue(request.enable_fallback),
                   DefaultTrue(request.quality_check))

\* "results[task_name] = result" when route_data_request has returned
PipelineCollect ==
  /\ batch.kind = "pipeline" /\ ~batch.finished /\ pc = "done"
  /\ LET task_name == TaskName(batch.items[batch.i], batch.i)
     IN batch' = [batch EXCEPT
                    !.results = WithEntry(@, task_name, result[1]),
                    !.log = Append(@, Handled(task_name, TRUE, call, platforms,
                                              result[1])),
                    !.i = @ + 1]
  /\ pc' = "idle"
  /\ UNCHANGED <<cfgVars, routerVars, call, platforms, idx, platforms_tried,
                 errors, elapsed, result, turns, hist0, calls, configOps, op,
                 budget, threads>>

\* after the loop: the metadata entry and the return
PipelineEnd ==
  /\ batch.kind = "pipeline" /\ ~batch.finished /\ pc = "idle"
  /\ batch.i > Len(batch.items)
  /\ batch' = [batch EXCEPT
                 !.results = WithEntry(@, "_pipeline_metadata",
                                       PipelineMetadata(batch.items, batch.results)),
                 !.finished = TRUE]
  /\ UNCHANGED <<cfgVars, routerVars, pc, call, platforms, idx, platforms_tried,
                 errors, elapsed, result, turns, hist0, calls, configOps, op,
                 budget, threads>>

\* get_multi_platform_data(data_type, params, platforms) up to its loop
MultiStart(data_type, params, given) ==
  /\ batch.kind = "none"
  /\ pc = "idle"
  /\ batch' = [kind |-> "multi",
               items |-> IF given = Absent
                         THEN get_enabled_platforms(config, data_type)
                         ELSE given[1],
               data_type |-> data_type, params |-> params, i |-> 1,
               results |-> EmptyDict, log |-> <<>>,
               perfs0 |-> platform_performance,
               history0 |-> Len(request_history), finished |-> FALSE]
  /\ UNCHANGED <<cfgVars, routerVars, pc, call, platforms, idx, platforms_tried,
                 errors, elapsed, result, turns, hist0, calls, configOps, op,
                 budget, threads>>

\* mutant: no platform is taken for disabled
MultiSkips_Never(cfg, platform) == FALSE

\* "if not config_manager.is_platform_enabled(platform)"
MultiSkips(cfg, platform) == ~is_platform_enabled(cfg, platform)

\* an iteration on a disabled platform: the entry and "continue"
MultiSkipPlatform ==
  /\ batch.kind = "multi" /\ ~batch.finished /\ pc = "idle"
  /\ batch.i <= Len(batch.items)
  /\ MultiSkips(config, batch.items[batch.i])
  /\ LET platform == batch.items[batch.i]
     IN batch' = [batch EXCEPT
                    !.results = WithEntry(@, platform,
                                          DisabledPlatformResult(platform)),
                    !.log = Append(@, Handled(platform, FALSE, call, <<>>,
                                              DisabledPlatformResult(platform))),
                    !.i = @ + 1]
  /\ UNCHANGED <<cfgVars, routerVars, pc, call, platforms, idx, platforms_tried,
                 errors, elapsed, result, turns, hist0, calls, configOps, op,
                 budget, threads>>

\* an iteration on an enabled platform: the call of route_data_request
MultiRoutePlatform ==
  /\ batch.kind = "multi" /\ ~batch.finished /\ pc = "idle"
  /\ batch.i <= Len(batch.items)
  /\ ~MultiSkips(config, batch.items[batch.i])
  /\ RouteBegin(batch.data_type, batch.params, Some(<<batch.items[batch.i]>>),
                FALSE, TRUE)

\* "results[platform] = result" when route_data_request has returned
MultiCollect ==
  /\ batch.kind = "multi" /\ ~batch.finished /\ pc = "done"
  /\ LET platform == batch.items[batch.i]
     IN batch' = [batch EXCEPT
                    !.results = WithEntry(@, platform, result[1]),
                    !.log = Append(@, Handled(platform, TRUE, call, platforms,
                                              result[1])),
                    !.i = @ + 1]
  /\ pc' = "idle"
  /\ UNCHANGED <<cfgVars, routerVars, call, platforms, idx, platforms_tried,
                 errors, elapsed, result, turns, hist0, calls, configOps, op,
                 budget, threads>>

\* after the loop: the return
MultiEnd ==
  /\ batch.kind = "multi" /\ ~batch.finished /\ pc = "idle"
  /\ batch.i > Len(batch.items)
  /\ batch' = [batch EXCEPT !.finished = TRUE]
  /\ UNCHANGED <<cfgVars, routerVars, pc, call, platforms, idx, platforms_tried,
                 errors, elapsed, result, turns, hist0, calls, configOps, op,
                 budget, threads>>

(***************************************************************************)
(* One pipeline or one comparison on a router, over a configuration that   *)
(* is the default one, one with akshare and tushare on the same priority,  *)
(* or one with tushare disabled; the router has served no call, or one.    *)
(***************************************************************************)
TiedConfig ==
  [_get_default_config EXCEPT !.platform_settings["tushare"].priority = Some(1)]

BatchConfigs ==
  {_get_default_config, TiedConfig,
   [_get_default_config EXCEPT !.platform_settings["tushare"].enabled = Some(FALSE)]}

\* a request of a pipeline; a key the dict lacks is <<>>
Request(name, data_type, ps) ==
  [name |-> name, data_type |-> data_type, params |-> {"symbol"},
   platforms |-> ps, enable_fallback |-> Absent, quality_check |-> Absent]

TaskChoices ==
  {Request(Some("a"), Some("stock_data"), Some(<<"akshare", "tushare">>)),
   Request(Absent, Some("stock_data"), Some(<<"tushare", "akshare">>)),
   Request(Some("b"), Some("stock_data"), Some(<<"simfin", "akshare", "tushare">>)),
   Request(Some("a"), Absent, Absent),
   Request(Some("c"), Some("stock_data"), Absent),
   Request(Some("d"), Some("option_data"), Absent)}

PipelineChoices == UNION {[1..n -> TaskChoices] : n \in 0..MaxTasks}

MultiChoices == {Absent, Some(<<"tushare", "akshare">>), Some(<<"ghost">>)}

\* a provider answers with a report that passes the gate or one that fails it
BatchOutcomes ==
  {[raises |-> FALSE, text |-> GoodReport], [raises |-> FALSE, text |-> ShortReport]}

InitBatch ==
  /\ config \in BatchConfigs
  /\ disk = _save_config(config)
  /\ \E start \in RouterStarts :
       /\ platform_performance = start.performance
       /\ request_history = start.history
  /\ pc = "idle"
  /\ call = [data_type |-> "stock_data", params |-> {},
             preferred_platforms |-> Absent,
             enable_fallback |-> TRUE, quality_check |-> TRUE]
  /\ platforms = <<>>
  /\ idx = 1
  /\ platforms_tried = <<>>
  /\ errors = <<>>
  /\ elapsed = 0
  /\ result = Absent
  /\ turns = <<>>
  /\ hist0 = 0
  /\ calls = 0
  /\ configOps = 0
  /\ op = Constructed
  /\ budget = [calls |-> MaxTasks, configOps |-> 0]
  /\ threads = <<>>
  /\ batch = NoBatch

NextBatch ==
  \/ \E requests \in PipelineChoices : PipelineStart(requests)
  \/ PipelineSkipTask
  \/ PipelineRouteTask
  \/ PipelineCollect
  \/ PipelineEnd
  \/ \E given \in MultiChoices : MultiStart("stock_data", {"symbol"}, given)
  \/ MultiSkipPlatform
  \/ MultiRoutePlatform
  \/ MultiCollect
  \/ MultiEnd
  \/ \E out \in BatchOutcomes, lat \in Latencies : RouteAttempt(out, lat)

SpecBatch == InitBatch /\ [][NextBatch]_vars

(***************************************************************************)
(* Vocabulary of the properties                                            *)
(***************************************************************************)
Returned == pc = "done"
Res == result[1]
Meta == result[1].metadata

Last(seq) == seq[Len(seq)]

\* an attempt step: the loop of _try_platforms ran one more iteration
AttemptStep == Len(turns') = Len(turns) + 1

\* the platforms get_data was invoked on, in the order of the invocations
RECURSIVE CalledPlatforms(_)
CalledPlatforms(ts) ==
  IF ts = <<>> THEN <<>>
  ELSE (IF Head(ts).called THEN <<Head(ts).platform>> ELSE <<>>)
       \o CalledPlatforms(Tail(ts))

\* the provider function ran and returned the text t.data[1]
AdapterReturned(t) == t.reached /\ ~t.adapter_raised /\ t.data # Absent

\* the number of lines holding a token that is not white space: the tokens
\* that are the first such token of their line
NonBlankLineCount(data) ==
  Cardinality({i \in 1..Len(data) :
                 /\ data[i] \notin {SP, NL}
                 /\ \A j \in 1..(i - 1) :
                      (\A k \in j..(i - 1) : data[k] # NL) => data[j] = SP})

\* the quality rule as the specification words it
QualityAcceptable(data, data_type, rules) ==
  /\ \E i \in 1..Len(data) : data[i] \notin {SP, NL}
  /\ Range(data) \cap error_indicators = {}
  /\ NonBlankLineCount(data) >=
       (IF data_type \in DOMAIN rules THEN rules[data_type].min_data_points ELSE 1)
  /\ (IF data_type \in DOMAIN rules THEN rules[data_type].required_fields ELSE {})
       \subseteq Range(data)

(***************************************************************************)
(* C1: with fallback enabled (and the default quality_check = true), two   *)
(* enabled candidates P1, P2 in this order, P1's provider raising and P2's *)
(* provider returning an acceptable payload: the call does not end after   *)
(* P1, and it returns success from P2 with platforms_tried = [P1, P2].     *)
(***************************************************************************)
C1_FallbackToSecondPlatform ==
  ( /\ pc \in {"trying", "done"}
    /\ call.enable_fallback /\ call.quality_check
    /\ Len(platforms) = 2 /\ Len(turns) >= 1
    /\ turns[1].enabled /\ turns[1].adapter_raised )
  => /\ Len(turns) = 1 => pc = "trying"
     /\ ( /\ Len(turns) = 2 /\ turns[2].enabled /\ AdapterReturned(turns[2])
          /\ QualityAcceptable(turns[2].data[1], call.data_type,
                               config.data_quality_rules) )
        => /\ Returned /\ Res.success
           /\ "platform_used" \in DOMAIN Meta
           /\ Meta.platform_used = platforms[2]
           /\ Meta.platforms_tried = platforms

C1_Witness ==
  /\ Returned /\ call.enable_fallback /\ call.quality_check
  /\ Len(platforms) = 2 /\ Len(turns) = 2
  /\ turns[1].enabled /\ turns[1].adapter_raised
  /\ turns[2].enabled /\ AdapterReturned(turns[2])
  /\ Res.success /\ Meta.platforms_tried = platforms

(***************************************************************************)
(* C2 as stated: in every returned result platform_used is set if and      *)
(* only if success is true.                                                *)
(***************************************************************************)
C2_PlatformUsedIffSuccess ==
  Returned => (("platform_used" \in DOMAIN Meta) <=> Res.success)

(***************************************************************************)
(* C2 amended: platform_used is set if and only if the call made an        *)
(* attempt and either succeeded or ran with enable_fallback = false; it    *)
(* then names the last platform attempted.                                 *)
(***************************************************************************)
C2_PlatformUsedAmended ==
  Returned =>
    /\ ("platform_used" \in DOMAIN Meta) <=>
         (Res.success \/ (~call.enable_fallback /\ Meta.platforms_tried # <<>>))
    /\ "platform_used" \in DOMAIN Meta =>
         Meta.platform_used = Last(Meta.platforms_tried)

C2_Witness ==
  /\ Returned /\ ~Res.success /\ ~call.enable_fallback
  /\ "platform_used" \in DOMAIN Meta
  /\ Len(turns) >= 1 /\ Last(turns).raised

(***************************************************************************)
(* C3 as stated: whenever the provider function raises during an attempt   *)
(* on P, P's total_requests grows by 1, its successful_requests and        *)
(* cumulative latency stay, an error entry for P is recorded and the       *)
(* attempt is not returned as a success.                                   *)
(***************************************************************************)
C3_AdapterRaiseIsFailedAttempt ==
  [][ (AttemptStep /\ Last(turns').adapter_raised) =>
        LET p == Last(turns').platform
            before == PerfOf(platform_performance, p)
            after == PerfOf(platform_performance', p)
        IN /\ after.total_requests = before.total_requests + 1
           /\ after.successful_requests = before.successful_requests
           /\ after.total_time = before.total_time
           /\ Len(errors') = Len(errors) + 1
           /\ Last(errors')[2] = p
           /\ ~(pc' = "done" /\ result'[1].success) ]_vars

(***************************************************************************)
(* C4 as stated: every call that has returned appended exactly one record  *)
(* to the request history.                                                 *)
(***************************************************************************)
C4_OneRecordPerCall ==
  Returned => Len(request_history) = hist0 + 1

(***************************************************************************)
(* C5 as stated: while the configured fallback strategy is "fail", an      *)
(* attempt that fails (get_data raises, or the quality gate rejects the    *)
(* payload) ends the call, whatever enable_fallback says.                  *)
(***************************************************************************)
C5_FailStrategyAborts ==
  [][ ( /\ AttemptStep
        /\ get_fallback_strategy(config) = "fail"
        /\ (Last(turns').raised \/ Last(turns').rejected) )
      => pc' = "done" /\ ~result'[1].success ]_vars

(***************************************************************************)
(* C6: platforms_tried is the list of the platforms get_data was invoked   *)
(* on, in invocation order, and none of them was disabled when its turn    *)
(* came; the returned result carries that list.                            *)
(***************************************************************************)
C6_TriedAreTheDispatched ==
  /\ platforms_tried = CalledPlatforms(turns)
  /\ \A i \in 1..Len(turns) : turns[i].called => turns[i].enabled
  /\ (Returned /\ turns # <<>>) => Meta.platforms_tried = CalledPlatforms(turns)
  /\ (Returned /\ turns = <<>>) => Meta.platforms_tried = <<>>

\* a platform of the configured list was disabled after the listing and
\* skipped, and a later candidate was attempted
C6_Witness ==
  /\ Returned /\ call.preferred_platforms = Absent
  /\ \E i \in 1..Len(turns) : ~turns[i].enabled
  /\ Meta.platforms_tried # <<>>

(***************************************************************************)
(* C7: stock_data, candidates akshare (priority 1) then tushare            *)
(* (priority 2), both enabled, fallback and quality check on.  akshare     *)
(* returns a text with the indicator "weihuoqudao": the call goes on to    *)
(* tushare; tushare returns the 15-line report: the result is success,     *)
(* platform_used = tushare, platforms_tried = [akshare, tushare].          *)
(***************************************************************************)
C7_ScenarioIndicatorThenReport ==
  ( /\ pc \in {"trying", "done"}
    /\ call.data_type = "stock_data"
    /\ call.enable_fallback /\ call.quality_check
    /\ platforms = <<"akshare", "tushare">>
    /\ get_platform_priority(config, "akshare") = 1
    /\ get_platform_priority(config, "tushare") = 2
    /\ Len(turns) >= 1 /\ turns[1].enabled
    /\ AdapterReturned(turns[1]) /\ turns[1].data[1] = NotFetchedText )
  => /\ Len(turns) = 1 => pc = "trying"
     /\ ( /\ Len(turns) = 2 /\ turns[2].enabled
          /\ AdapterReturned(turns[2]) /\ turns[2].data[1] = GoodReport )
        => /\ Returned /\ Res.success
           /\ "platform_used" \in DOMAIN Meta
           /\ Meta.platform_used = "tushare"
           /\ Meta.platforms_tried = <<"akshare", "tushare">>
           /\ Res.data = Some(GoodReport)

C7_Witness ==
  /\ Returned /\ call.data_type = "stock_data"
  /\ call.enable_fallback /\ call.quality_check
  /\ platforms = <<"akshare", "tushare">> /\ Len(turns) = 2
  /\ AdapterReturned(turns[1]) /\ turns[1].data[1] = NotFetchedText
  /\ AdapterReturned(turns[2]) /\ turns[2].data[1] = GoodReport
  /\ Res.success /\ Meta.platform_used = "tushare"

(***************************************************************************)
(* C8 as stated: with enable_fallback = false, when the first attempted    *)
(* candidate fails (its provider call raises, or with quality_check the    *)
(* payload is rejected) the call returns success = false, attempts no      *)
(* other candidate and platforms_tried has length 1.                       *)
(***************************************************************************)
AttemptFailed(t) == t.called /\ (t.raised \/ t.adapter_raised \/ t.rejected)

C8_NoFallbackStopsAtFirstFailure ==
  ( /\ pc \in {"trying", "done"}
    /\ ~call.enable_fallback
    /\ \E i \in 1..Len(turns) :
         /\ AttemptFailed(turns[i])
         /\ \A j \in 1..(i - 1) : ~turns[j].called )
  => /\ Returned
     /\ ~Res.success
     /\ Len(Meta.platforms_tried) = 1
     /\ Len(CalledPlatforms(turns)) = 1

(***************************************************************************)
(* C9: the quality gate rejects a payload exactly when the rule as worded  *)
(* does (blank, a failure indicator, too few non-blank lines, a required   *)
(* field missing); and a call with quality_check never returns success     *)
(* with a payload that is blank or carries a failure indicator.            *)
(***************************************************************************)
C9_QualityGate ==
  /\ \A i \in 1..Len(turns) :
       (call.quality_check /\ turns[i].data # Absent) =>
         (turns[i].rejected <=>
            ~QualityAcceptable(turns[i].data[1], call.data_type,
                               config.data_quality_rules))
  /\ (Returned /\ call.quality_check /\ Res.success) =>
       /\ Res.data # Absent
       /\ ~IsBlank(Res.data[1])
       /\ Range(Res.data[1]) \cap error_indicators = {}

\* the provider returned without raising, the gate rejected its payload for
\* an indicator, and a later call returned success
C9_Witness ==
  /\ Returned /\ call.quality_check /\ Res.success
  /\ Len(turns) = 2
  /\ AdapterReturned(turns[1]) /\ turns[1].rejected
  /\ turns[1].data[1] = NotFetchedText

(***************************************************************************)
(* C10: no call ends with an exception: whatever the candidates and the    *)
(* providers do, the call returns a result with a success flag, and a      *)
(* failure result carries an error message and the platforms_tried list.   *)
(***************************************************************************)
C10_NeverRaises ==
  /\ pc # "raised"
  /\ Returned =>
       /\ result # Absent
       /\ "success" \in DOMAIN Res
       /\ Res.success \in BOOLEAN
       /\ ~Res.success =>
            /\ "error" \in DOMAIN Res
            /\ "platforms_tried" \in DOMAIN Meta

\* get_data raised into the router, an unknown platform and an unsupported
\* data type were attempted, and the call returned a failure result
C10_Witness ==
  /\ Returned /\ ~Res.success
  /\ \E i \in 1..Len(turns) : turns[i].raised
  /\ Len(Meta.platforms_tried) = 2

(***************************************************************************)
(* C11: a step changes the counters of a platform P only when it is an     *)
(* attempt against P (get_data was invoked on P), and then P's             *)
(* total_requests grows by exactly 1, whether the attempt succeeded or     *)
(* failed; the entries of all other platforms, and of a platform that was  *)
(* skipped, stay as they were.                                             *)
(***************************************************************************)
C11_OneCountPerAttempt ==
  [][ \A p \in Platforms :
        IF AttemptStep /\ Last(turns').called /\ Last(turns').platform = p
        THEN PerfOf(platform_performance', p).total_requests =
               PerfOf(platform_performance, p).total_requests + 1
        ELSE /\ (p \in DOMAIN platform_performance') <=>
                  (p \in DOMAIN platform_performance)
             /\ PerfOf(platform_performance', p) =
                  PerfOf(platform_performance, p) ]_vars

\* a disabled candidate was skipped without an entry, and the next one was
\* attempted, failed and was counted once
C11_Witness ==
  /\ Len(turns) = 2
  /\ ~turns[1].called /\ turns[1].platform \notin DOMAIN platform_performance
  /\ turns[2].called /\ turns[2].raised
  /\ PerfOf(platform_performance, turns[2].platform).total_requests = 1
  /\ PerfOf(platform_performance, turns[2].platform).successful_requests = 0

(***************************************************************************)
(* C12: the request history never holds more than 1000 records.  The       *)
(* append made on a history of 1000 records leaves exactly 500: the last   *)
(* 499 of the old records followed by the new one, in their order.  Every  *)
(* other append adds the new record at the end and keeps the rest.         *)
(***************************************************************************)
C12_HistoryBounded ==
  /\ [](Len(request_history) <= 1000)
  /\ [][ request_history' # request_history =>
           LET record == Last(request_history')
               appended == Append(request_history, record)
           IN /\ record.timestamp = calls
              /\ IF Len(request_history) = 1000
                 THEN /\ Len(request_history') = 500
                      /\ request_history' = SubSeq(appended, 502, 1001)
                 ELSE request_history' = appended ]_vars

\* the history was cut to 500 records by the second call and grew to 501
\* with the third
C12_Witness ==
  /\ Returned /\ calls = 3
  /\ Len(request_history) = 501
  /\ request_history[1].timestamp = -497
  /\ request_history[499].timestamp = 1
  /\ request_history[501].timestamp = 3

(***************************************************************************)
(* C13: an optimize_preferences call that directly follows another one     *)
(* leaves the configuration, and so every preference list, as the first    *)
(* call left it, and does not write the persisted document.                *)
(***************************************************************************)
C13_OptimizeIdempotent ==
  (op.name = "optimize_preferences" /\ op.prev.name = "optimize_preferences")
  => /\ config = op.before
     /\ \A dt \in DataTypes :
          get_platform_preferences(config, dt) =
            get_platform_preferences(op.before, dt)
     /\ ~op.wrote

\* the first call reordered a preference list and wrote it, the second
\* call found nothing to do
C13_Witness ==
  /\ op.name = "optimize_preferences" /\ op.prev.name = "optimize_preferences"
  /\ op.prev.wrote /\ ~op.wrote
  /\ get_platform_preferences(config, "stock_data") = <<"akshare", "tushare">>

Without(ps, platform) == SelectSeq(ps, LAMBDA q : q # platform)

C15_DisableThenEnable ==
  /\ op.name = "disable_platform" =>
       \A dt \in DataTypes :
         /\ get_enabled_platforms(config, dt) =
              Without(get_enabled_platforms(op.before, dt), op.arg[1])
         /\ \A i \in 1..Len(get_enabled_platforms(config, dt)) :
              get_enabled_platforms(config, dt)[i] # op.arg[1]
         /\ get_platform_preferences(config, dt) =
              get_platform_preferences(op.before, dt)
  /\ ( /\ op.name = "enable_platform" /\ op.prev.name = "disable_platform"
       /\ op.arg = op.prev.arg
       /\ is_platform_enabled(op.prev.before, op.arg[1]) )
     => \A dt \in DataTypes :
          get_enabled_platforms(config, dt) =
            get_enabled_platforms(op.prev.before, dt)

\* akshare, enabled and first in the stock_data list, was disabled and
\* enabled again
C15_Witness ==
  /\ op.name = "enable_platform" /\ op.prev.name = "disable_platform"
  /\ op.arg = <<"akshare">> /\ op.prev.arg = <<"akshare">>
  /\ is_platform_enabled(op.prev.before, "akshare")
  /\ get_enabled_platforms(op.prev.before, "stock_data") = <<"akshare", "tushare">>
  /\ get_enabled_platforms(op.before, "stock_data") = <<"tushare">>
  /\ get_platform_preferences(op.before, "stock_data") = <<"akshare", "tushare">>
  /\ get_enabled_platforms(config, "stock_data") = <<"akshare", "tushare">>

(***************************************************************************)
(* C16: when the enabled platforms of a data type are two platforms, P1 of *)
(* priority 1 and P2 of priority 2, in either order of the preference      *)
(* list, and the tracker holds no performance history, get_best_platform   *)
(* of that data type returns P1.                                           *)
(***************************************************************************)
C16_BestPlatformByPriority ==
  op.name = "get_best_platform" =>
    LET enabled == get_enabled_platforms(config, op.arg[1])
    IN \A P1, P2 \in Platforms :
         ( /\ enabled \in {<<P1, P2>>, <<P2, P1>>}
           /\ get_platform_priority(config, P1) = 1
           /\ get_platform_priority(config, P2) = 2
           /\ DOMAIN platform_performance = {} )
         => op.ret = Some(Some(P1))

\* the preference list names the priority 2 platform first
C16_Witness ==
  /\ op.name = "get_best_platform" /\ op.arg = <<"stock_data">>
  /\ get_enabled_platforms(config, "stock_data") = <<"tushare", "akshare">>
  /\ get_platform_priority(config, "akshare") = 1
  /\ get_platform_priority(config, "tushare") = 2
  /\ DOMAIN platform_performance = {}
  /\ op.ret = Some(Some("akshare"))

(***************************************************************************)
(* C17 as stated: a get_data call on a platform that is not in the         *)
(* capability table, or on a platform that does not support the data      *)
(* type, ends with an error and returns no text; and when the provider     *)
(* function raises, get_data raises.                                       *)
(***************************************************************************)
C17_DispatchErrorsAreRaised ==
  \A i \in 1..Len(turns) :
    LET t == turns[i]
        unknown == t.platform \notin DOMAIN PlatformCapabilities
        unsupported == /\ ~unknown
                       /\ call.data_type \notin PlatformCapabilities[t.platform]
    IN t.called =>
         /\ (unknown \/ unsupported) => (t.raised /\ t.data = Absent)
         /\ t.adapter_raised => (t.raised /\ t.data = Absent)

(***************************************************************************)
(* C18 as stated: once the store is constructed, and before any read or    *)
(* mutation is served, a persisted document exists and the in-memory       *)
(* configuration is what it holds: the built-in default (fallback strategy *)
(* next_available) when no document existed at construction.               *)
(***************************************************************************)
C18_DefaultPersistedAtConstruction ==
  op.name = "__init__" =>
    /\ disk # Absent
    /\ config = _load_config(disk)
    /\ op.prev.name = "" =>
         /\ config = _get_default_config
         /\ get_fallback_strategy(config) = "next_available"

(***************************************************************************)
(* C19: when a mutating operation of the store has returned, a store       *)
(* constructed from the persisted document holds the in-memory             *)
(* configuration; the operation wrote the document, which is the           *)
(* in-memory configuration as JSON.  (The one return without a write is an *)
(* import_config that could not read its file and changed nothing.)        *)
(***************************************************************************)
Mutators ==
  {"set_platform_preferences", "set_platform_settings", "enable_platform",
   "disable_platform", "set_platform_priority", "set_default_params",
   "set_fallback_strategy", "import_config", "reset_to_default"}

C20_NoLostUpdate ==
  (threads # <<>> /\ \A t \in DOMAIN threads : threads[t].pc = "done") =>
    \A p \in Platforms :
      /\ PerfOf(platform_performance, p).total_requests =
           Cardinality({t \in DOMAIN threads : threads[t].platform = p})
      /\ PerfOf(platform_performance, p).successful_requests =
           Cardinality({t \in DOMAIN threads :
                          threads[t].platform = p /\ threads[t].success})

(***************************************************************************)
(* Vocabulary of the pipeline and comparison claims                        *)
(***************************************************************************)
\* the arguments create_smart_pipeline passes to route_data_request
RequestCall(request) ==
  [data_type |-> request.data_type[1], params |-> request.params,
   preferred_platforms |-> request.platforms,
   enable_fallback |-> DefaultTrue(request.enable_fallback),
   quality_check |-> DefaultTrue(request.quality_check)]

\* the ordered candidate list a call gets from a router whose tracker is perfs
RouteDecision(cfg, perfs, c) ==
  LET preferred_platforms ==
        IF c.preferred_platforms = Absent
        THEN get_enabled_platforms(cfg, c.data_type)
        ELSE c.preferred_platforms[1]
  IN IF preferred_platforms = <<>> THEN <<>>
     ELSE _sort_platforms_by_priority(cfg, perfs, preferred_platforms)

\* the trackers the loop over ps can leave, from position i on, over all the
\* ways the providers can answer
RECURSIVE PerfsAfterLoop(_, _, _, _, _)
PerfsAfterLoop(cfg, perfs, c, ps, i) ==
  IF i > Len(ps) THEN {perfs}
  ELSE UNION {LET it == Iteration(cfg, perfs, c, ps[i], <<>>, <<>>, out, lat)
              IN IF it.ret # Absent \/ it.escapes THEN {it.perfs}
                 ELSE PerfsAfterLoop(cfg, it.perfs, c, ps, i + 1) :
              out \in BatchOutcomes, lat \in Latencies}

\* the trackers the first k tasks of a pipeline can leave
RECURSIVE PerfsAfterTasks(_, _, _, _)
PerfsAfterTasks(cfg, perfs, requests, k) ==
  IF k = 0 THEN {perfs}
  ELSE UNION {IF requests[k].data_type = Absent THEN {p}
              ELSE PerfsAfterLoop(cfg, p, RequestCall(requests[k]),
                                  RouteDecision(cfg, p, RequestCall(requests[k])), 1) :
              p \in PerfsAfterTasks(cfg, perfs, requests, k - 1)}

(***************************************************************************)
(* C21: in create_pipeline the tasks are handled in list order, and the    *)
(* ordered candidate list a task is routed with is the same whatever the   *)
(* providers answered to the earlier tasks of the pipeline.                *)
(***************************************************************************)
C21_RoutingIndependentOfEarlierOutcomes ==
  batch.kind = "pipeline" =>
    \A k \in 1..Len(batch.log) :
      /\ batch.log[k].name = TaskName(batch.items[k], k)
      /\ batch.log[k].routed =>
           /\ batch.log[k].call = RequestCall(batch.items[k])
           /\ \A perfs \in PerfsAfterTasks(config, batch.perfs0, batch.items, k - 1) :
                batch.log[k].platforms = RouteDecision(config, perfs, batch.log[k].call)

(***************************************************************************)
(* C22: create_pipeline returns one result per task of the request list,   *)
(* whatever the task names, and its metadata holds the number of requested *)
(* tasks, the number of requested tasks whose result has success = true,   *)
(* and their quotient (0 for an empty list).                               *)
(***************************************************************************)
PipelineReturned == batch.kind = "pipeline" /\ batch.finished

C22_PipelineResultsAndMetadata ==
  PipelineReturned =>
    LET meta == batch.results["_pipeline_metadata"]
        succeeded == {k \in 1..Len(batch.log) : batch.log[k].entry.success}
    IN /\ Cardinality(DOMAIN batch.results \ {"_pipeline_metadata"}) = Len(batch.items)
       /\ \A k \in 1..Len(batch.log) :
            batch.results[batch.log[k].name] = batch.log[k].entry
       /\ meta.total_tasks = Len(batch.items)
       /\ meta.successful_tasks = Cardinality(succeeded)
       /\ meta.success_rate = IF batch.items = <<>> THEN <<0, 1>>
                              ELSE <<Cardinality(succeeded), Len(batch.items)>>

(***************************************************************************)
(* Vocabulary of the comparison claims                                     *)
(***************************************************************************)
MultiReturned == batch.kind = "multi" /\ batch.finished

\* the arguments of a route call restricted to one platform
SingleCall(platform) ==
  [data_type |-> batch.data_type, params |-> batch.params,
   preferred_platforms |-> Some(<<platform>>),
   enable_fallback |-> FALSE, quality_check |-> TRUE]

\* what a route call restricted to an enabled platform returns on a router
\* that has served nothing, over the ways the provider can answer
EntriesAlone(platform) ==
  {LET it == Iteration(config, [p \in {} |-> NewPerf], SingleCall(platform),
                       platform, <<>>, <<>>, out, lat)
   IN WithExecutionTime(it.ret[1], it.spent) :
   out \in BatchOutcomes, lat \in Latencies}

\* the platforms an entry reports an attempt on
Reported(entry) ==
  IF "metadata" \in DOMAIN entry
  THEN {entry.metadata.platforms_tried[j] :
          j \in 1..Len(entry.metadata.platforms_tried)}
  ELSE {}

RoutedItems == {k \in 1..Len(batch.log) : batch.log[k].routed}

(***************************************************************************)
(* C23: get_multi_platform_data returns one entry for every candidate      *)
(* platform, each obtained by one route call restricted to that platform   *)
(* with fallback off and the quality check on; the entry of P reports no   *)
(* attempt on another platform and is what the call on P alone returns,    *)
(* whatever the other platforms did.                                       *)
(***************************************************************************)
C23_EveryEntryFromOneRouteCall ==
  batch.kind = "multi" =>
    /\ MultiReturned =>
         DOMAIN batch.results = {batch.items[k] : k \in 1..Len(batch.items)}
    /\ \A k \in 1..Len(batch.log) :
         LET platform == batch.items[k]
         IN /\ batch.log[k].name = platform
            /\ batch.log[k].routed
            /\ batch.log[k].call = SingleCall(platform)
            /\ Reported(batch.log[k].entry) \subseteq {platform}
            /\ batch.log[k].entry \in EntriesAlone(platform)

(***************************************************************************)
(* C23 amended: one entry for every candidate platform.  A candidate that  *)
(* is enabled gets its entry from one route call restricted to it, with    *)
(* fallback off and the quality check on, and the entry is what that call  *)
(* alone returns; a disabled candidate of an explicit list gets a failure  *)
(* entry without metadata and no route call is made for it.  No entry      *)
(* reports an attempt on a platform other than its own.                    *)
(***************************************************************************)
C23_EntryPerCandidateAmended ==
  batch.kind = "multi" =>
    /\ MultiReturned =>
         /\ DOMAIN batch.results = {batch.items[k] : k \in 1..Len(batch.items)}
         /\ calls = Cardinality(RoutedItems)
         /\ Len(request_history) = batch.history0 + Cardinality(RoutedItems)
    /\ \A k \in 1..Len(batch.log) :
         LET platform == batch.items[k]
         IN /\ batch.log[k].name = platform
            /\ batch.log[k].routed <=> is_platform_enabled(config, platform)
            /\ Reported(batch.log[k].entry) \subseteq {platform}
            /\ IF batch.log[k].routed
               THEN /\ batch.log[k].call = SingleCall(platform)
                    /\ batch.log[k].entry \in EntriesAlone(platform)
               ELSE batch.log[k].entry = DisabledPlatformResult(platform)

\* a comparison returned with a disabled candidate and, after a candidate
\* that failed, one that succeeded
C23_Witness ==
  /\ MultiReturned
  /\ \E j, k \in 1..Len(batch.log) :
       /\ j < k
       /\ ~batch.log[j].entry.success
       /\ batch.log[k].routed /\ batch.log[k].entry.success
  /\ \E j \in 1..Len(batch.log) : ~batch.log[j].routed

(***************************************************************************)
(* C24: get_best_platform issues no request: it leaves the performance     *)
(* counters, the request history and the configuration (in memory and on   *)
(* disk) unchanged, and returns none when the data type has no enabled     *)
(* platform.                                                               *)
(***************************************************************************)
BestPlatformStep == configOps' = configOps + 1 /\ op'.name = "get_best_platform"

C24_BestPlatformIsARead ==
  [][BestPlatformStep =>
       /\ platform_performance' = platform_performance
       /\ request_history' = request_history
       /\ config' = config
       /\ disk' = disk
       /\ calls' = calls /\ pc' = pc /\ turns' = turns
       /\ get_enabled_platforms(config, op'.arg[1]) = <<>> => op'.ret = Some(Absent)
       /\ get_enabled_platforms(config, op'.arg[1]) # <<>> => op'.ret # Some(Absent)]_vars

\* the best platform of a data type without enabled platform was asked of a
\* router that had served a call
C24_Witness ==
  /\ op.name = "get_best_platform"
  /\ get_enabled_platforms(config, op.arg[1]) = <<>>
  /\ op.ret = Some(Absent)
  /\ request_history # <<>>
  /\ DOMAIN platform_performance # {}

(***************************************************************************)
(* C25: platforms are never deleted: every platform that had a settings    *)
(* entry before an operation still has one after it.                       *)
(***************************************************************************)
C25_PlatformsNeverDeleted ==
  DOMAIN op.before.platform_settings \subseteq DOMAIN config.platform_settings

(***************************************************************************)
(* C26: the candidates are attempted in the order of a stable sort by      *)
(* (priority ascending, performance score descending): along the order the *)
(* priority never decreases, within one priority the score never           *)
(* increases, candidates equal on both keys keep their input order; so a   *)
(* better history never moves a platform ahead of one with a strictly      *)
(* lower priority number.                                                  *)
(***************************************************************************)
\* route_data_request has just sorted its candidates: the tracker is the
\* one the sort read
JustSorted == pc = "trying" /\ turns = <<>>

CallCandidates ==
  IF call.preferred_platforms = Absent
  THEN get_enabled_platforms(config, call.data_type)
  ELSE call.preferred_platforms[1]

PositionIn(seq, x) == CHOOSE k \in 1..Len(seq) : seq[k] = x
Priority(p) == get_platform_priority(config, p)
Score(p) == performance_score(platform_performance, p)

C26_StableSortByPriorityThenScore ==
  /\ \A k \in 1..Len(turns) : turns[k].platform = platforms[k]
  /\ JustSorted =>
       /\ Len(platforms) = Len(CallCandidates)
       /\ \A p \in Platforms :
            Cardinality({k \in 1..Len(platforms) : platforms[k] = p})
              = Cardinality({k \in 1..Len(CallCandidates) : CallCandidates[k] = p})
       /\ \A i, j \in 1..Len(platforms) :
            i < j =>
              /\ Priority(platforms[i]) <= Priority(platforms[j])
              /\ Priority(platforms[i]) = Priority(platforms[j]) =>
                   ~FracLess(Score(platforms[i]), Score(platforms[j]))
              /\ (/\ Priority(platforms[i]) = Priority(platforms[j])
                  /\ Score(platforms[i]) = Score(platforms[j])) =>
                   PositionIn(CallCandidates, platforms[i])
                     < PositionIn(CallCandidates, platforms[j])

\* a sort that moved the better scored of two platforms of one priority
\* ahead, and left a platform with a higher priority number behind one that
\* scores worse
C26_Witness ==
  /\ JustSorted
  /\ \E i, j \in 1..Len(platforms) :
       /\ i < j
       /\ Priority(platforms[i]) = Priority(platforms[j])
       /\ FracLess(Score(platforms[j]), Score(platforms[i]))
       /\ PositionIn(CallCandidates, platforms[j])
            < PositionIn(CallCandidates, platforms[i])
  /\ \E i, j \in 1..Len(platforms) :
       /\ i < j
       /\ Priority(platforms[i]) < Priority(platforms[j])
       /\ FracLess(Score(platforms[i]), Score(platforms[j]))

(***************************************************************************)
(* C27: first success wins.  When route returns success = true,            *)
(* platform_used is the last element of platforms_tried, no candidate      *)
(* after it in the ordered list was attempted or had its counters updated, *)
(* and every earlier element of platforms_tried was an attempt that failed *)
(* or was rejected by the quality gate.                                    *)
(***************************************************************************)
SuccessStep == AttemptStep /\ pc' = "done" /\ result'[1].success

C27_FirstSuccessWins ==
  [][SuccessStep =>
       LET meta == result'[1].metadata
       IN /\ meta.platform_used = Last(meta.platforms_tried)
          /\ meta.platform_used = platforms[idx]
          /\ meta.platforms_tried = CalledPlatforms(turns')
          /\ Len(turns') = idx
          /\ \A k \in 1..Len(turns') : turns'[k].platform = platforms[k]
          /\ Last(turns').called /\ ~Last(turns').raised /\ ~Last(turns').rejected
          /\ \A k \in 1..(Len(turns') - 1) :
               turns'[k].called => (turns'[k].raised \/ turns'[k].rejected)
          /\ \A k \in (idx + 1)..Len(platforms) :
               platforms[k] # platforms[idx] =>
                 /\ (platforms[k] \in DOMAIN platform_performance') <=>
                      (platforms[k] \in DOMAIN platform_performance)
                 /\ PerfOf(platform_performance', platforms[k]) =
                      PerfOf(platform_performance, platforms[k])]_vars

\* a call that succeeded on its second candidate after the first one's
\* payload was rejected
C27_Witness ==
  /\ Returned /\ Res.success
  /\ Len(platforms) = 2 /\ Len(turns) = 2
  /\ turns[1].called /\ turns[1].rejected
  /\ Meta.platform_used = platforms[2]
  /\ Meta.platforms_tried = platforms

(***************************************************************************)
(* C28: when route with enable_fallback = true returns failure for a       *)
(* non-empty candidate list, platforms_tried is the full sequence of the   *)
(* candidates that were enabled, in sorted order, and the collected errors *)
(* hold exactly one entry per attempted platform, in the same order.       *)
(***************************************************************************)
\* the candidates that were enabled when their turn came, in turn order
RECURSIVE EnabledAtTurn(_)
EnabledAtTurn(ts) ==
  IF ts = <<>> THEN <<>>
  ELSE (IF Head(ts).enabled THEN <<Head(ts).platform>> ELSE <<>>)
       \o EnabledAtTurn(Tail(ts))

C28_ExhaustedFallbackTriesAll ==
  (Returned /\ call.enable_fallback /\ ~Res.success /\ platforms # <<>>) =>
    /\ Len(turns) = Len(platforms)
    /\ \A k \in 1..Len(turns) : turns[k].platform = platforms[k]
    /\ Meta.platforms_tried = EnabledAtTurn(turns)
    /\ configOps = 0 => Meta.platforms_tried = FilterEnabled(config, platforms)
    /\ Len(Meta.errors) = Len(Meta.platforms_tried)
    /\ \A k \in 1..Len(Meta.errors) :
         Meta.errors[k] \in {QualityError(Meta.platforms_tried[k]),
                             FetchError(Meta.platforms_tried[k])}

\* a call with fallback that failed after both of its candidates were
\* attempted
C28_Witness ==
  /\ Returned /\ call.enable_fallback /\ ~Res.success
  /\ Len(platforms) = 2
  /\ Meta.platforms_tried = platforms
  /\ Len(Meta.errors) = 2

(***************************************************************************)
(* C29: with quality_check = true and enable_fallback = false, when the    *)
(* first attempted platform returns a payload the quality gate rejects,    *)
(* route returns success = false with the rejected payload in data, an     *)
(* error message, and platforms_tried holding only that platform.  With    *)
(* enable_fallback = true a rejected payload is never returned.            *)
(***************************************************************************)
C29_RejectedPayloadWithoutFallback ==
  /\ ( /\ pc \in {"trying", "done"}
       /\ call.quality_check /\ ~call.enable_fallback )
     => \A i \in 1..Len(turns) :
          ( /\ turns[i].called /\ turns[i].rejected
            /\ \A j \in 1..(i - 1) : ~turns[j].called )
          => /\ Returned
             /\ ~Res.success
             /\ Res.data = turns[i].data /\ Res.data # Absent
             /\ "error" \in DOMAIN Res /\ Res.error = QualityError(turns[i].platform)
             /\ Meta.platforms_tried = <<turns[i].platform>>
  /\ (Returned /\ call.enable_fallback)
     => /\ \A i \in 1..Len(turns) : turns[i].rejected => Res.data # turns[i].data
        /\ ~Res.success => Res.data = Absent

\* a call without fallback that returned the payload the gate rejected
C29_Witness ==
  /\ Returned /\ call.quality_check /\ ~call.enable_fallback
  /\ Len(turns) = 1 /\ turns[1].called /\ turns[1].rejected
  /\ ~Res.success
  /\ Res.data = Some(ShortReport)
  /\ Meta.platforms_tried = <<turns[1].platform>>

(***************************************************************************)
(* C30: every provider call that returns (does not raise) is recorded in   *)
(* the tracker as a successful attempt with its measured latency, whatever *)
(* the quality gate says afterwards: a payload the gate rejects still      *)
(* raises the platform's successful_requests by 1.                         *)
(***************************************************************************)
ReturnedStep == AttemptStep /\ Last(turns').called /\ ~Last(turns').raised

C30_ReturnedCallCountsAsSuccess ==
  [][ReturnedStep =>
       LET p == Last(turns').platform
           old == PerfOf(platform_performance, p)
           new == PerfOf(platform_performance', p)
           platform_time == elapsed' - elapsed
       IN /\ p \in DOMAIN platform_performance'
          /\ platform_time \in Latencies
          /\ new.total_requests = old.total_requests + 1
          /\ new.successful_requests = old.successful_requests + 1
          /\ new.total_time = old.total_time + platform_time
          /\ new.success_rate = <<new.successful_requests, new.total_requests>>
          /\ new.avg_time = <<new.total_time, new.successful_requests>>]_vars

\* the only attempt of a call returned a payload the gate rejected, and the
\* tracker holds it as one successful request of 0.3 s
C30_Witness ==
  /\ Returned /\ ~Res.success
  /\ Len(turns) = 1 /\ turns[1].called /\ turns[1].rejected
  /\ PerfOf(platform_performance, turns[1].platform).total_requests = 1
  /\ PerfOf(platform_performance, turns[1].platform).successful_requests = 1
  /\ PerfOf(platform_performance, turns[1].platform).total_time = 3

(***************************************************************************)
(* C31: every platform with a tracker entry has, in every state between    *)
(* attempts, 0 <= successful_requests <= total_requests, total_requests    *)
(* >= 1, success_rate = successful_requests / total_requests, and when     *)
(* successful_requests > 0 an average latency equal to the cumulative      *)
(* latency of the successful attempts / successful_requests; failed        *)
(* attempts add no latency.                                                *)
(***************************************************************************)
\* the fraction f is the quotient num / den
IsQuotient(f, num, den) == f[2] # 0 /\ den # 0 /\ f[1] * den = num * f[2]

ShortestLatency == CHOOSE l \in Latencies : \A m \in Latencies : l <= m
LongestLatency == CHOOSE l \in Latencies : \A m \in Latencies : m <= l

C31_TrackerEntriesConsistent ==
  \A p \in DOMAIN platform_performance :
    LET perf == platform_performance[p]
    IN /\ 0 <= perf.successful_requests
       /\ perf.successful_requests <= perf.total_requests
       /\ perf.total_requests >= 1
       /\ IsQuotient(perf.success_rate, perf.successful_requests, perf.total_requests)
       /\ perf.successful_requests > 0 =>
            IsQuotient(perf.avg_time, perf.total_time, perf.successful_requests)
       /\ perf.successful_requests * ShortestLatency <= perf.total_time
       /\ perf.total_time <= perf.successful_requests * LongestLatency

\* a platform that failed once and then answered once: rate 1/2, average
\* latency that of the one answer
C31_Witness ==
  \E p \in DOMAIN platform_performance :
    /\ platform_performance[p].total_requests = 2
    /\ platform_performance[p].successful_requests = 1
    /\ platform_performance[p].total_time = 3
    /\ IsQuotient(platform_performance[p].success_rate, 1, 2)
    /\ IsQuotient(platform_performance[p].avg_time, 3, 1)

(***************************************************************************)
(* C32: in every result route returns, an error message is present when    *)
(* success is false and absent when success is true.                       *)
(***************************************************************************)
C32_ErrorIffFailure ==
  Returned =>
    /\ ("error" \in DOMAIN Res) <=> ~Res.success
    /\ "error" \in DOMAIN Res => Res.error # <<>>

\* a failure that carries both its error message and the rejected payload
C32_Witness ==
  /\ Returned /\ ~Res.success
  /\ "error" \in DOMAIN Res /\ Res.error # <<>>
  /\ Res.data # Absent

(***************************************************************************)
(* C33: optimize_preferences only reorders: for every data type the set of *)
(* platforms of its preference list after the call is the set before the   *)
(* call; no platform, enabled or disabled, is dropped or added.            *)
(***************************************************************************)
C33_OptimizeOnlyReorders ==
  op.name = "optimize_preferences" =>
    /\ DOMAIN config.platform_preferences = DOMAIN op.before.platform_preferences
    /\ \A dt \in DOMAIN config.platform_preferences :
         Range(config.platform_preferences[dt])
           = Range(op.before.platform_preferences[dt])

(***************************************************************************)
(* C34: every text get_data produces for a failure (unknown platform,      *)
(* unsupported data type, exception of the provider function) is rejected  *)
(* by the quality gate, for every data type; so with quality_check = true  *)
(* a dispatch failure is never returned as a success, and with             *)
(* enable_fallback = true the next candidate gets its turn.                *)
(***************************************************************************)
DispatchFailureTexts == {UnsupportedPlatformText, UnsupportedTypeText, CallFailedText}

\* get_data returned a text for a failure in this turn
DispatchFailed(t) ==
  t.called /\ ~t.raised /\ (~t.reached \/ t.adapter_raised)

C34_DispatchFailureRejected ==
  /\ \A text \in DispatchFailureTexts, dt \in DataTypes \cup {"news"} :
       ~_validate_data_quality(text, dt, config.data_quality_rules)
  /\ \A i \in 1..Len(turns) :
       DispatchFailed(turns[i]) =>
         /\ turns[i].data \in {Some(text) : text \in DispatchFailureTexts}
         /\ call.quality_check =>
              /\ turns[i].rejected
              /\ ~(Returned /\ Res.success /\ i = Len(turns))
              /\ (call.enable_fallback /\ i < Len(platforms)) =>
                   \/ pc = "trying" /\ idx = i + 1 /\ Len(turns) = i
                   \/ Len(turns) > i

\* a call with the quality check and fallback whose first candidate, a
\* platform that does not serve the data type, was followed by a second
C34_Witness ==
  /\ call.quality_check /\ call.enable_fallback
  /\ Len(turns) = 2
  /\ DispatchFailed(turns[1]) /\ ~turns[1].reached /\ turns[1].rejected
  /\ turns[2].called

(***************************************************************************)
(* C35: while the history has not been truncated, the sum of               *)
(* total_requests over all platforms equals the number of entries of       *)
(* platforms_tried summed over the recorded requests: between calls, every *)
(* attempt is counted once in the tracker and once in the history.         *)
(***************************************************************************)
RECURSIVE SumTried(_)
SumTried(history) ==
  IF history = <<>> THEN 0
  ELSE Len(Head(history).platforms_tried) + SumTried(Tail(history))

RECURSIVE SumRequests(_, _)
SumRequests(perfs, ps) ==
  IF ps = {} THEN 0
  ELSE LET p == CHOOSE q \in ps : TRUE
       IN perfs[p].total_requests + SumRequests(perfs, ps \ {p})

\* the attempts of the call in progress, not yet in the history
AttemptsInProgress == IF pc = "trying" THEN Len(platforms_tried) ELSE 0

C35_TrackerMatchesHistory ==
  Len(request_history) < HistoryCap =>
    SumRequests(platform_performance, DOMAIN platform_performance)
      = SumTried(request_history) + AttemptsInProgress

\* between calls, a router with three recorded requests, one of them with
\* two attempts
C35_Witness ==
  /\ pc # "trying"
  /\ Len(request_history) = 3
  /\ \E k \in 1..3 : Len(request_history[k].platforms_tried) = 2
  /\ SumRequests(platform_performance, DOMAIN platform_performance) >= 4

(***************************************************************************)
(* C36: among platforms of equal priority, one with recorded attempts and  *)
(* no success (score 0) is ordered after one without history (score        *)
(* 0.5 / 5 = 0.1 per second), and one without history is ordered after any *)
(* whose success_rate / max(avg_time, 0.1) exceeds 0.1.                    *)
(***************************************************************************)
HasHistory(p) == p \in DOMAIN platform_performance
NeverSucceeded(p) == HasHistory(p) /\ platform_performance[p].successful_requests = 0
\* 0.1 per second, the times being in tenths of a second
NeutralScore == <<1, 100>>
SameFraction(a, b) == a[1] * b[2] = b[1] * a[2]

C36_ScoreTiers ==
  /\ \A p \in Platforms :
       /\ ~HasHistory(p) => SameFraction(Score(p), NeutralScore)
       /\ NeverSucceeded(p) => SameFraction(Score(p), <<0, 1>>)
  /\ JustSorted =>
       \A i, j \in 1..Len(platforms) :
         (i # j /\ Priority(platforms[i]) = Priority(platforms[j])) =>
           /\ (NeverSucceeded(platforms[i]) /\ ~HasHistory(platforms[j])) => j < i
           /\ (/\ ~HasHistory(platforms[i])
               /\ HasHistory(platforms[j])
               /\ FracLess(NeutralScore, Score(platforms[j]))) => j < i

\* a sort that moved a platform without history ahead of one of the same
\* priority that had failed its only attempt
C36_Witness ==
  /\ JustSorted
  /\ \E i, j \in 1..Len(platforms) :
       /\ j < i
       /\ Priority(platforms[i]) = Priority(platforms[j])
       /\ NeverSucceeded(platforms[i]) /\ ~HasHistory(platforms[j])
       /\ PositionIn(CallCandidates, platforms[i])
            < PositionIn(CallCandidates, platforms[j])

(***************************************************************************)
(* C37: a route call without preferred_platforms attempts first the        *)
(* platform get_best_platform returns for its data type in the same        *)
(* configuration and tracker state, and get_best_platform returns None     *)
(* exactly when that call fails with an empty platforms_tried.             *)
(***************************************************************************)
\* what get_best_platform(data_type) returns in the current state
BestNow(data_type) ==
  get_best_platform_for_data_type(config, platform_performance, data_type)

\* route_data_request is entered without preferred_platforms
DefaultRouteStep == calls' = calls + 1 /\ call'.preferred_platforms = Absent

\* the configuration has not disabled the first candidate since the sort
FirstStillEnabled ==
  IF turns = <<>> THEN is_platform_enabled(config, platforms[1])
  ELSE turns[1].enabled

C37_BestPlatformIsFirstAttempted ==
  [][/\ DefaultRouteStep =>
          LET best == BestNow(call'.data_type)
          IN /\ best = Absent <=>
                  /\ pc' = "done"
                  /\ result' # Absent
                  /\ ~result'[1].success
                  /\ result'[1].metadata.platforms_tried = <<>>
             /\ best # Absent =>
                  /\ pc' = "trying"
                  /\ platforms'[1] = best[1]
                  /\ FirstStillEnabled'
     /\ (/\ pc = "trying"
         /\ call.preferred_platforms = Absent
         /\ turns' # turns
         /\ FirstStillEnabled) =>
          /\ platforms_tried'[1] = platforms[1]
          /\ result' # Absent => result'[1].metadata.platforms_tried[1] = platforms[1]
    ]_vars

\* a returned call without preferred_platforms whose first attempt went to
\* a platform the tracker had moved ahead of the preference order
C37_Witness ==
  /\ pc = "done" /\ result # Absent
  /\ call.preferred_platforms = Absent
  /\ turns # <<>> /\ turns[1].enabled
  /\ Len(platforms) >= 2
  /\ result[1].metadata.platforms_tried[1] = platforms[1]
  /\ Len(get_enabled_platforms(config, call.data_type)) = Len(platforms)
  /\ platforms # get_enabled_platforms(config, call.data_type)

(***************************************************************************)
(* C38: reset_performance_stats empties the performance tracker and the    *)
(* request history and leaves the configuration unchanged; afterwards      *)
(* every platform has the neutral score, so candidates are ordered by      *)
(* priority, equal priorities in input order.                              *)
(***************************************************************************)
ResetStep == configOps' = configOps + 1 /\ op'.name = "reset_performance_stats"

CandidateLists ==
  {config.platform_preferences[dt] : dt \in DOMAIN config.platform_preferences}
    \cup {<<"tushare", "akshare">>, <<"simfin", "akshare", "tushare">>}

\* ps in a stable order by static priority
InPriorityOrder(ps, sorted) ==
  /\ Len(sorted) = Len(ps)
  /\ Range(sorted) = Range(ps)
  /\ \A i, j \in 1..Len(sorted) :
       i < j =>
         \/ Priority(sorted[i]) < Priority(sorted[j])
         \/ /\ Priority(sorted[i]) = Priority(sorted[j])
            /\ PositionIn(ps, sorted[i]) < PositionIn(ps, sorted[j])

OrderedByPriorityAlone ==
  /\ \A p \in Platforms : SameFraction(Score(p), NeutralScore)
  /\ \A ps \in CandidateLists :
       InPriorityOrder(ps, _sort_platforms_by_priority(config, platform_performance, ps))

C38_ResetClearsRouterOnly ==
  [][ResetStep =>
       /\ platform_performance' = [p \in {} |-> NewPerf]
       /\ request_history' = <<>>
       /\ config' = config
       /\ disk' = disk
       /\ OrderedByPriorityAlone']_vars

\* a reset after optimize_preferences had moved tushare ahead of akshare,
\* both enabled and of one priority, on account of the tracker: the order
\* of the two is the input order again
C38_Witness ==
  /\ op.name = "reset_performance_stats"
  /\ op.prev.name = "optimize_preferences" /\ op.prev.wrote
  /\ op.prev.before.platform_preferences["stock_data"] = <<"akshare", "tushare">>
  /\ get_platform_priority(op.prev.before, "akshare")
       = get_platform_priority(op.prev.before, "tushare")
  /\ config.platform_preferences["stock_data"] = <<"tushare", "akshare">>
  /\ platform_performance = [p \in {} |-> NewPerf]
  /\ request_history = <<>>
  /\ _sort_platforms_by_priority(config, platform_performance,
                                 <<"akshare", "tushare">>) = <<"akshare", "tushare">>

(***************************************************************************)
(* C39: enable_platform(P), disable_platform(P), set_platform_priority(P,  *)
(* n) and set_default_params(P, d) change the named field of P alone: the  *)
(* other fields of P, the settings of every other platform, the            *)
(* preference lists, the quality rules and the fallback strategy are as    *)
(* before, and for a P without an entry one is created whose unset fields  *)
(* read as enabled true, priority 999, no default params.                  *)
(***************************************************************************)
FieldSetters ==
  {"enable_platform", "disable_platform", "set_platform_priority", "set_default_params"}

SetterField(name) ==
  CASE name \in {"enable_platform", "disable_platform"} -> "enabled"
    [] name = "set_platform_priority" -> "priority"
    [] name = "set_default_params" -> "default_params"

SettingFields == {"enabled", "priority", "default_params"}

C39_SettersChangeOneField ==
  op.name \in FieldSetters =>
    LET P == op.arg[1]
        field == SetterField(op.name)
        old == get_platform_settings(op.before, P)
    IN /\ [config EXCEPT !.platform_settings = op.before.platform_settings] = op.before
       /\ DOMAIN config.platform_settings = DOMAIN op.before.platform_settings \cup {P}
       /\ \A q \in DOMAIN op.before.platform_settings \ {P} :
            config.platform_settings[q] = op.before.platform_settings[q]
       /\ \A f \in SettingFields \ {field} : config.platform_settings[P][f] = old[f]
       /\ config.platform_settings[P][field] # Absent
       /\ op.name = "enable_platform" => is_platform_enabled(config, P)
       /\ op.name = "disable_platform" => ~is_platform_enabled(config, P)
       /\ P \notin DOMAIN op.before.platform_settings =>
            /\ field # "enabled" => is_platform_enabled(config, P)
            /\ field # "priority" => get_platform_priority(config, P) = 999
            /\ field # "default_params" => get_default_params(config, P) = {}

\* akshare disabled while it held a priority and default params of its own,
\* which it keeps
C39_Witness ==
  /\ op.name = "disable_platform" /\ op.arg = <<"akshare">>
  /\ "akshare" \in DOMAIN op.before.platform_settings
  /\ op.before.platform_settings["akshare"].priority # Absent
  /\ op.before.platform_settings["akshare"].default_params # Absent
  /\ is_platform_enabled(op.before, "akshare")
  /\ ~is_platform_enabled(config, "akshare")
  /\ config.platform_settings["akshare"].priority
       = op.before.platform_settings["akshare"].priority

====
